---- MODULE Spec2Model ----
(***************************************************************************)
(* Verification model of parts of str0m:                                   *)
(*   - ExtensionMap (set / lookup / remap / swap / write_to / parse)       *)
(*                                                     src/src/rtp/ext.rs  *)
(*   - Extension::write_to / parse_value of every kind, parse_leb_u64      *)
(*                                                     src/src/rtp/ext.rs  *)
(*   - the AV1 Dependency Descriptor parser and Parser::ns                 *)
(*                              src/src/rtp/dependency_descriptor.rs       *)
(*   - Stats (timeouts and events)               src/str0m/src/stats.rs    *)
(*   - aes_128_cm_sha1_80::rtp_iv, aead_aes_128_gcm::rtp_iv                *)
(*                                               src/src/crypto/srtp.rs    *)
(*   - transform_dtls_event          src/src/crypto/wincrypto/dtls.rs      *)
(*   - Vsr (write_to / try_from)               src/src/rtp/rtcp/vsr.rs     *)
(* Each part has its own specification; the variables of the other parts   *)
(* stay at their initial value.                                            *)
(***************************************************************************)
EXTENDS Integers, Sequences, FiniteSets, TLC

VARIABLES
    exts,       \* ExtensionMap.0: id (1..14) -> NoEntry | [ext, locked]
    prevExts,   \* the map before the last call
    call,       \* the last ExtensionMap call: [op, id, ext]
    latest,     \* the host's cache: [shared_structure, bitmask], each an Option
    descriptor, \* the bytes of the descriptor handed to parse
    passed,     \* the cached values handed to parse with it
    parsed,     \* ParseResult<ParsedDependencyDescriptor> of that call
    pc,         \* "idle" | "parsed"
    ev,         \* the ExtensionValues handed to Extension::write_to
    buf,        \* the buffer write_to writes and parse_value reads
    written,    \* what write_to returned, an Option<usize>
    values,     \* the ExtensionValues parse_value filled in
    al_pc,      \* "write" | "parse" | "done"
    vla_buf,    \* the bytes of a VideoLayersAllocation extension value
    vla_values, \* the ExtensionValues parse_value filled in from them
    vla_pc,     \* "idle" | "parsed"
    last_now,   \* Stats.last_now
    events,     \* Stats.events
    st_call,    \* the last call on the Stats: [op, arg, ret]
    st_hist,    \* what the model remembers of the earlier calls
    iv_call,    \* the last rtp_iv call: [salt, ssrc, srtp_index, iv]
    output_events, \* the VecDeque<DtlsEvent> transform_dtls_event fills
    dtls_call,  \* the last transform_dtls_event call: [event, before]
    pd_exts,    \* the ExtensionMap of the session, PlayoutDelay mapped
    pd_ev,      \* the ExtensionValues handed to ExtensionMap::write_to
    pd_buf,     \* the buffer write_to writes and parse reads
    pd_written, \* what ExtensionMap::write_to returned
    pd_values,  \* the ExtensionValues parse filled in
    pd_pc,      \* "set" | "write" | "parse" | "done"
    wt_exts,    \* the ExtensionMap ExtensionMap::write_to is called on
    wt_call,    \* the last write_to call on it: [op, ev, buf, n, panic]
    ps_exts,    \* the ExtensionMap ExtensionMap::parse is called on
    ps_call,    \* the last parse call on it: [buf, two_byte_header, values]
    ps_pc,      \* "idle" | "parsed"
    ns_call,    \* the last Parser::ns call: [n, bytes, skip, result]
    leb_call,   \* the last parse_leb_u64 call: [bytes, called, result]
    ivp_call,   \* two rtp_iv calls under one salt: [kind, salt, x, y, iv_x, iv_y]
    vsr_call    \* the last Vsr write_to and the try_from calls on its bytes

extVars == <<exts, prevExts, call>>

ddVars == <<latest, descriptor, passed, parsed, pc>>

alVars == <<ev, buf, written, values, al_pc>>

vlaVars == <<vla_buf, vla_values, vla_pc>>

statsVars == <<last_now, events, st_call, st_hist>>

ivVars == <<iv_call>>

dtlsVars == <<output_events, dtls_call>>

pdVars == <<pd_exts, pd_ev, pd_buf, pd_written, pd_values, pd_pc>>

wtVars == <<wt_exts, wt_call>>

psVars == <<ps_exts, ps_call, ps_pc>>

nsVars == <<ns_call>>

lebVars == <<leb_call>>

ivpVars == <<ivp_call>>

vsrVars == <<vsr_call>>

\* The variables of the parts that follow the AudioLevel part.
moreVars ==
    <<vlaVars, statsVars, ivVars, dtlsVars, pdVars, wtVars, psVars, nsVars,
      lebVars, ivpVars, vsrVars>>

\* The variables a part leaves alone.
exceptVla ==
    <<extVars, ddVars, alVars, statsVars, ivVars, dtlsVars, pdVars, wtVars,
      psVars, nsVars, lebVars, ivpVars, vsrVars>>

exceptStats ==
    <<extVars, ddVars, alVars, vlaVars, ivVars, dtlsVars, pdVars, wtVars,
      psVars, nsVars, lebVars, ivpVars, vsrVars>>

exceptIv ==
    <<extVars, ddVars, alVars, vlaVars, statsVars, dtlsVars, pdVars, wtVars,
      psVars, nsVars, lebVars, ivpVars, vsrVars>>

exceptDtls ==
    <<extVars, ddVars, alVars, vlaVars, statsVars, ivVars, pdVars, wtVars,
      psVars, nsVars, lebVars, ivpVars, vsrVars>>

exceptPd ==
    <<extVars, ddVars, alVars, vlaVars, statsVars, ivVars, dtlsVars, wtVars,
      psVars, nsVars, lebVars, ivpVars, vsrVars>>

exceptWt ==
    <<extVars, ddVars, alVars, vlaVars, statsVars, ivVars, dtlsVars, pdVars,
      psVars, nsVars, lebVars, ivpVars, vsrVars>>

exceptPs ==
    <<extVars, ddVars, alVars, vlaVars, statsVars, ivVars, dtlsVars, pdVars,
      wtVars, nsVars, lebVars, ivpVars, vsrVars>>

exceptNs ==
    <<extVars, ddVars, alVars, vlaVars, statsVars, ivVars, dtlsVars, pdVars,
      wtVars, psVars, lebVars, ivpVars, vsrVars>>

exceptLeb ==
    <<extVars, ddVars, alVars, vlaVars, statsVars, ivVars, dtlsVars, pdVars,
      wtVars, psVars, nsVars, ivpVars, vsrVars>>

exceptIvp ==
    <<extVars, ddVars, alVars, vlaVars, statsVars, ivVars, dtlsVars, pdVars,
      wtVars, psVars, nsVars, lebVars, vsrVars>>

exceptVsr ==
    <<extVars, ddVars, alVars, vlaVars, statsVars, ivVars, dtlsVars, pdVars,
      wtVars, psVars, nsVars, lebVars, ivpVars>>

vars == <<exts, prevExts, call, latest, descriptor, passed, parsed, pc,
          ev, buf, written, values, al_pc, moreVars>>

None == "None"

Min(S) == CHOOSE x \in S : \A y \in S : x <= y

(***************************************************************************)
(* ExtensionMap                                                            *)
(***************************************************************************)

\* [Option<MapEntry>; 14], index 0 is extmap:1. The model indexes by id.
NumIds == 14

\* Longest remote extension list handed to remap.
MaxRemote == 2

\* The extension kinds and the ids the calls are made with (0 and 15 are
\* outside 1..=14).
Extensions == {"TransportSequenceNumber", "VideoOrientation"}
ExtIds == {0, 1, 12, 14, 15}

Ids == 1..NumIds

MapEntry(ext, locked) == [ext |-> ext, locked |-> locked]

\* An id with no mapping (Option::None).
NoEntry == [ext |-> None, locked |-> FALSE]

\* ExtensionMap::empty
Empty == [i \in Ids |-> NoEntry]

\* set that lets an id above 14 overwrite the last entry.
SetOp_NoUpperCheck(m, id, ext) ==
    IF id < 1
    THEN m
    ELSE [m EXCEPT ![IF id > NumIds THEN NumIds ELSE id] = MapEntry(ext, FALSE)]

\* ExtensionMap::set
SetOp(m, id, ext) ==
    IF id < 1 \/ id > NumIds
    THEN m
    ELSE [m EXCEPT ![id] = MapEntry(ext, FALSE)]

\* ExtensionMap::lookup
Lookup(m, id) ==
    IF id >= 1 /\ id <= NumIds
    THEN m[id].ext
    ELSE None

\* The ids at which ext is mapped.
IdsOf(m, ext) == {i \in Ids : m[i] # NoEntry /\ m[i].ext = ext}

\* ExtensionMap::id_of: the first id mapped to ext.
IdOf(m, ext) == IF IdsOf(m, ext) = {} THEN None ELSE Min(IdsOf(m, ext))

\* swap that copies the entry to the target id and keeps it at the old one.
SwapOp_Copy(m, id, ext) ==
    IF id < 1 \/ id > NumIds \/ IdsOf(m, ext) = {}
    THEN m
    ELSE LET old_index == Min(IdsOf(m, ext))
             locked    == [m EXCEPT ![old_index].locked = TRUE]
         IN  IF id # old_index /\ m[old_index].locked
             THEN m
             ELSE [locked EXCEPT ![id] = locked[old_index]]

\* swap without the check of the lock: a locked entry is renumbered.
SwapOp_NoLockCheck(m, id, ext) ==
    IF id < 1 \/ id > NumIds \/ IdsOf(m, ext) = {}
    THEN m
    ELSE LET old_index == Min(IdsOf(m, ext))
             locked    == [m EXCEPT ![old_index].locked = TRUE]
         IN  [locked EXCEPT ![old_index] = locked[id], ![id] = locked[old_index]]

\* swap that overwrites the target id instead of exchanging the two entries.
SwapOp_Overwrite(m, id, ext) ==
    IF id < 1 \/ id > NumIds \/ IdsOf(m, ext) = {}
    THEN m
    ELSE LET old_index == Min(IdsOf(m, ext))
         IN  IF id # old_index /\ m[old_index].locked
             THEN m
             ELSE [m EXCEPT ![old_index] = NoEntry, ![id] = MapEntry(ext, TRUE)]

\* ExtensionMap::swap
SwapOp(m, id, ext) ==
    IF id < 1 \/ id > NumIds
    THEN m
    ELSE IF IdsOf(m, ext) = {}
    THEN m
    ELSE LET new_index == id
             old_index == Min(IdsOf(m, ext))
             is_change == new_index # old_index
             locked    == [m EXCEPT ![old_index].locked = TRUE]
         IN  IF is_change /\ m[old_index].locked
             THEN m
             ELSE IF ~is_change
             THEN locked
             ELSE [locked EXCEPT ![old_index] = locked[new_index],
                                 ![new_index] = locked[old_index]]

\* ExtensionMap::remap: swap for every pair of the remote list, in order.
RECURSIVE RemapOp(_, _)
RemapOp(m, remote_exts) ==
    IF remote_exts = <<>>
    THEN m
    ELSE RemapOp(SwapOp(m, Head(remote_exts)[1], Head(remote_exts)[2]),
                 Tail(remote_exts))

RemotePairs == ExtIds \X Extensions

RemoteLists == UNION {[1..n -> RemotePairs] : n \in 0..MaxRemote}

InitExt ==
    /\ exts = Empty
    /\ prevExts = Empty
    /\ call = [op |-> "empty", id |-> 0, ext |-> None]

Set ==
    \E id \in ExtIds, ext \in Extensions :
        /\ exts' = SetOp(exts, id, ext)
        /\ prevExts' = exts
        /\ call' = [op |-> "set", id |-> id, ext |-> ext]
        /\ UNCHANGED <<ddVars, alVars, moreVars>>

Remap ==
    \E remote_exts \in RemoteLists :
        /\ exts' = RemapOp(exts, remote_exts)
        /\ prevExts' = exts
        /\ call' = [op |-> "remap", id |-> 0, ext |-> None]
        /\ UNCHANGED <<ddVars, alVars, moreVars>>

NextExt == Set \/ Remap

(***************************************************************************)
(* Claims about ExtensionMap                                               *)
(***************************************************************************)

Mapped(m, ext) == IdsOf(m, ext) # {}

DistinctKinds(m) ==
    \A i, j \in Ids : (i # j /\ m[i] # NoEntry /\ m[j] # NoEntry) => m[i].ext # m[j].ext

NoLocked(m) == \A i \in Ids : ~m[i].locked

\* C1: once an entry is locked (kind K at id I), lookup(I) still returns K
\* after every later remap call, whatever the remote list.
C1_LockedBindingKept ==
    [][call'.op = "remap" =>
        \A i \in Ids : exts[i].locked => Lookup(exts', i) = exts[i].ext]_vars

\* C2: remap is idempotent: after remap(L), a second remap(L) leaves the map,
\* entries and lock flags, as it is.
C2_RemapIdempotent ==
    call.op = "remap" =>
        \A L \in RemoteLists : exts = RemapOp(prevExts, L) => RemapOp(exts, L) = exts

ListIds(L) == {L[j][1] : j \in 1..Len(L)}
ListKinds(L) == {L[j][2] : j \in 1..Len(L)}

\* ids in 1..=14, ids pairwise distinct, kinds pairwise distinct
DistinctList(L) ==
    /\ ListIds(L) \subseteq Ids
    /\ \A j, k \in 1..Len(L) : j # k => (L[j][1] # L[k][1] /\ L[j][2] # L[k][2])

\* The ids a list asks for kinds that are mapped in m.
TargetIds(m, L) == {L[j][1] : j \in {k \in 1..Len(L) : Mapped(m, L[k][2])}}

\* C4: from a map with no locked entry and pairwise distinct kinds, remap
\* with a list of pairwise distinct ids (1..=14) and kinds ends with
\* lookup(id) = kind for every listed pair whose kind is mapped, and a kind
\* neither listed nor displaced keeps its id.
C4_RemapReachesRemoteIds ==
    (NoLocked(exts) /\ DistinctKinds(exts)) =>
        \A L \in RemoteLists :
            DistinctList(L) =>
                LET r == RemapOp(exts, L)
                IN  /\ \A j \in 1..Len(L) :
                          Mapped(exts, L[j][2]) => Lookup(r, L[j][1]) = L[j][2]
                    /\ \A i \in Ids :
                          (/\ exts[i] # NoEntry
                           /\ exts[i].ext \notin ListKinds(L)
                           /\ i \notin TargetIds(exts, L))
                              => r[i] = exts[i]

\* remap has exchanged the ids 12 and 14 of two unlocked entries.
C4_Witness ==
    /\ call.op = "remap"
    /\ NoLocked(prevExts)
    /\ prevExts[12].ext = "TransportSequenceNumber"
    /\ prevExts[14].ext = "VideoOrientation"
    /\ exts = RemapOp(prevExts, <<(<<14, "TransportSequenceNumber">>),
                                  (<<12, "VideoOrientation">>)>>)
    /\ Lookup(exts, 14) = "TransportSequenceNumber"
    /\ Lookup(exts, 12) = "VideoOrientation"

\* Ids a u8 can hold outside 1..=14.
OutOfRangeIds == {0, 15, 16, 255}

\* C21: ids outside 1..=14 are rejected by every ExtensionMap operation:
\* set with id = 0 or id >= 15 leaves the map unchanged, lookup of such an
\* id returns None, and a remap pair with such an id moves and locks
\* nothing.
C21_OutOfRangeIdsRejected ==
    /\ (call.op = "set" /\ call.id \notin Ids) => exts = prevExts
    /\ \A id \in OutOfRangeIds, ext \in Extensions :
          /\ SetOp(exts, id, ext) = exts
          /\ Lookup(exts, id) = None
          /\ SwapOp(exts, id, ext) = exts
          /\ RemapOp(exts, <<(<<id, ext>>)>>) = exts
    /\ \A id \in OutOfRangeIds, L \in RemoteLists :
          \A ext \in Extensions :
              RemapOp(exts, <<(<<id, ext>>)>> \o L) = RemapOp(exts, L)

\* C21 witness: set with id 15 was called on a map that holds an unlocked
\* entry at id 14 and left it as it was.
C21_Witness ==
    /\ call.op = "set"
    /\ call.id = 15
    /\ prevExts[14] # NoEntry
    /\ ~prevExts[14].locked
    /\ call.ext # prevExts[14].ext
    /\ exts = prevExts

\* The number of ids a kind is mapped at, and the locked entries.
KindCount(m, ext) == Cardinality(IdsOf(m, ext))
MappedIds(m) == {i \in Ids : m[i] # NoEntry}
LockedIds(m) == {i \in Ids : m[i].locked}

\* C27: remap only permutes entries: the multiset of mapped kinds is the
\* same before and after remap, a remote kind that is not mapped locally
\* is ignored, and lock flags are only set by remap, never cleared.
C27_RemapPermutes ==
    /\ call.op = "remap" =>
          /\ \A ext \in Extensions : KindCount(exts, ext) = KindCount(prevExts, ext)
          /\ Cardinality(MappedIds(exts)) = Cardinality(MappedIds(prevExts))
          /\ LockedIds(prevExts) \subseteq LockedIds(exts)
          /\ \A ext \in Extensions :
                Cardinality(LockedIds(exts) \cap IdsOf(exts, ext))
                  >= Cardinality(LockedIds(prevExts) \cap IdsOf(prevExts, ext))
    /\ call.op = "set" => LockedIds(exts) \subseteq LockedIds(prevExts)
    /\ \A id \in ExtIds, ext \in Extensions :
          ~Mapped(exts, ext) => SwapOp(exts, id, ext) = exts
    /\ LockedIds(exts) \subseteq MappedIds(exts)

\* C27 witness: remap has moved a kind to another id and locked it, while
\* the other kind of the remote list is not mapped.
C27_Witness ==
    /\ call.op = "remap"
    /\ prevExts = SetOp(Empty, 12, "TransportSequenceNumber")
    /\ exts = RemapOp(prevExts, <<(<<1, "VideoOrientation">>),
                                  (<<14, "TransportSequenceNumber">>)>>)
    /\ exts[14] = MapEntry("TransportSequenceNumber", TRUE)
    /\ exts[12] = NoEntry

(***************************************************************************)
(* BitStream (dependency_descriptor.rs)                                    *)
(***************************************************************************)

\* Result<T, ParseError> / Option<T> of a read: the value and the stream
\* after it, or the error.
Ok(v, bs) == [ok |-> TRUE, val |-> v, bs |-> bs]
Err(e) == [ok |-> FALSE, err |-> e]

Pow2(n) == 2 ^ n

\* A u32 or u64 word is the set of the positions of its 1 bits, bit 0 the
\* least significant.
WordOf(n) == {i \in 0..30 : (n \div Pow2(i)) % 2 = 1}

\* word << k in a word of `width` bits
Shl(word, k, width) == {i + k : i \in word} \cap (0..(width - 1))

\* word - 1, wrapping, in a word of `width` bits
Sub1(word, width) ==
    IF word = {}
    THEN 0..(width - 1)
    ELSE LET k == CHOOSE i \in word : \A j \in word : i <= j
         IN  (word \ {k}) \cup (0..(k - 1))

RECURSIVE ValueOf(_)
ValueOf(word) ==
    IF word = {}
    THEN 0
    ELSE LET k == CHOOSE i \in word : TRUE
         IN  Pow2(k) + ValueOf(word \ {k})

\* word as u8, word as u16
AsU8(word) == ValueOf(word \cap (0..7))
AsU16(word) == ValueOf(word \cap (0..15))

\* Option<T>: None is the empty sequence, Some(v) the sequence of v alone.
NoneOpt == <<>>
Some(v) == <<v>>
IsSome(o) == o # <<>>
Unwrap(o) == o[1]
\* Option::or that never falls back to b
OrOpt_First(a, b) == a

\* Option::or
OrOpt(a, b) == IF IsSome(a) THEN a ELSE b

\* The locals of a function body: Ok(locals, stream), the locals a record
\* that grows with every `let`, or the error that ended the body.
Begin(bs) == Ok(<<>>, bs)

\* let name = r?;
Bind(p, name, r) ==
    IF ~p.ok THEN p
    ELSE IF ~r.ok THEN r
    ELSE Ok((name :> r.val) @@ p.val, r.bs)

\* Ok(value) at the end of a body
Return(p, value) == IF ~p.ok THEN p ELSE Ok(value, p.bs)

\* Option::ok_or
OkOr(r, e) == IF r.ok THEN r ELSE Err(e)

\* `let Some(x) = o else { return Err(e) }`
SomeOr(o, e, bs) == IF IsSome(o) THEN Ok(Unwrap(o), bs) ELSE Err(e)

\* r? as u8, r? as u16, Some(r?)
CastU8(r) == IF r.ok THEN Ok(AsU8(r.val), r.bs) ELSE r
CastU16(r) == IF r.ok THEN Ok(AsU16(r.val), r.bs) ELSE r
SomeOf(r) == IF r.ok THEN Ok(Some(r.val), r.bs) ELSE r

\* BitStream::new
BitStreamNew(bytes) == [bytes |-> bytes, bit_index |-> 0]

\* BitStream::is_empty
BitStreamIsEmpty(bs) == bs.bytes = <<>>

\* The stream after bit_count bits of byte0 were taken.
AdvanceInByte0(bs, bit_count) ==
    IF bs.bit_index + bit_count >= 8
    THEN [bytes |-> Tail(bs.bytes), bit_index |-> 0]
    ELSE [bytes |-> bs.bytes, bit_index |-> bs.bit_index + bit_count]

\* BitStream::read_ms_bit_of_byte
ReadMsBitOfByte(byte, bit_index) == ((byte \div Pow2(7 - bit_index)) % 2) > 0

\* BitStream::read_ms_bits_of_byte: (byte >> (8 - end)) & (0xff >> (8 - len))
ReadMsBitsOfByte(byte, start, end) ==
    (byte \div Pow2(8 - end)) % Pow2(end - start)

\* BitStream::read_bit
ReadBit(bs) ==
    IF bs.bytes = <<>>
    THEN Err("None")
    ELSE Ok(ReadMsBitOfByte(Head(bs.bytes), bs.bit_index), AdvanceInByte0(bs, 1))

\* BitStream::read_u8_up_until_end_of_byte0
ReadU8UpUntilEndOfByte0(bs, bit_count) ==
    IF bit_count = 0
    THEN Ok(0, bs)
    ELSE IF bs.bit_index + bit_count > 8
    THEN Err("None")
    ELSE IF bs.bytes = <<>>
    THEN Err("None")
    ELSE Ok(ReadMsBitsOfByte(Head(bs.bytes), bs.bit_index, bs.bit_index + bit_count),
            AdvanceInByte0(bs, bit_count))

\* BitStream::u32_from_bytes: result = result.wrapping_shl(8) | byte
RECURSIVE U32FromBytes(_, _)
U32FromBytes(bytes, result) ==
    IF bytes = <<>>
    THEN result
    ELSE U32FromBytes(Tail(bytes), Shl(result, 8, 32) \cup WordOf(Head(bytes)))

\* BitStream::read_u32_from_aligned_bytes / read_aligned_bytes
ReadU32FromAlignedBytes(bs, byte_count) ==
    IF byte_count = 0
    THEN Ok({}, bs)
    ELSE IF bs.bit_index > 0
    THEN Err("None")
    ELSE IF byte_count > Len(bs.bytes)
    THEN Err("None")
    ELSE Ok(U32FromBytes(SubSeq(bs.bytes, 1, byte_count), {}),
            [bytes |-> SubSeq(bs.bytes, byte_count + 1, Len(bs.bytes)),
             bit_index |-> 0])

\* BitStream::read_u32
ReadU32(bs, bit_count) ==
    LET bit_count_remaining_in_byte0 == 8 - bs.bit_index
        left_bit_count ==
            IF bit_count_remaining_in_byte0 < bit_count
            THEN bit_count_remaining_in_byte0 ELSE bit_count
        right_bit_count ==
            (IF bit_count > bit_count_remaining_in_byte0
             THEN bit_count - bit_count_remaining_in_byte0 ELSE 0) % 8
        middle_bit_count == bit_count - left_bit_count - right_bit_count
        middle_byte_count == middle_bit_count \div 8
        left(p) ==
            Bind(p, "left", ReadU8UpUntilEndOfByte0(p.bs, left_bit_count))
        middle(p) ==
            Bind(p, "middle", ReadU32FromAlignedBytes(p.bs, middle_byte_count))
        right(p) ==
            Bind(p, "right", ReadU8UpUntilEndOfByte0(p.bs, right_bit_count))
        result(p) ==
            Return(p, Shl(Shl(WordOf(p.val.left), middle_bit_count, 32)
                              \cup p.val.middle,
                          right_bit_count, 32) \cup WordOf(p.val.right))
    IN  result(right(middle(left(Begin(bs)))))

\* BitStream::read_ls_bit_of_u32, with the caller's unwrap_or(false)
ReadLsBitOfU32(word, bit_index) ==
    IF bit_index > 32 THEN FALSE ELSE bit_index \in word

(***************************************************************************)
(* Dependency Descriptor parser (dependency_descriptor.rs, Parser)         *)
(***************************************************************************)

\* Parser::f
F(bs, n) == OkOr(ReadU32(bs, n), "NotEnoughBits")

\* Parser::f1
F1(bs) == OkOr(ReadBit(bs), "NotEnoughBits")

\* The number of bits of n, 0 for 0.
RECURSIVE BitLength(_)
BitLength(n) == IF n = 0 THEN 0 ELSE 1 + BitLength(n \div 2)

\* u8::leading_zeros
LeadingZeros(n) == 8 - BitLength(n)

\* Parser::ns without the extra bit: the k-bit value is returned as read.
Ns_NoExtraBit(bs, possible_values_count) ==
    IF possible_values_count = 0
    THEN Ok(0, bs)
    ELSE LET w == 8 - LeadingZeros(possible_values_count)
             v(p) == Bind(p, "v", CastU16(F(p.bs, w - 1)))
             result(p) == IF ~p.ok THEN p ELSE Ok(p.val.v % 256, p.bs)
         IN  result(v(Begin(bs)))

\* Parser::ns
Ns(bs, possible_values_count) ==
    IF possible_values_count = 0
    THEN Ok(0, bs)
    ELSE LET w == 8 - LeadingZeros(possible_values_count)
             m == (Pow2(w) % Pow2(16)) - possible_values_count
             v(p) == Bind(p, "v", CastU16(F(p.bs, w - 1)))
             extra_bit(p) ==
                 IF p.ok /\ p.val.v < m THEN p
                 ELSE Bind(p, "extra_bit", CastU16(F(p.bs, 1)))
             result(p) ==
                 IF ~p.ok THEN p
                 ELSE IF p.val.v < m THEN Ok(p.val.v % 256, p.bs)
                 ELSE Ok((((p.val.v * 2) % Pow2(16)) - m + p.val.extra_bit) % 256,
                         p.bs)
         IN  result(extra_bit(v(Begin(bs))))

\* f(width) as u16, count times: the values read, in order.
RECURSIVE FTimes(_, _, _, _)
FTimes(bs, width, count, acc) ==
    LET next(r) ==
            IF ~r.ok THEN r
            ELSE FTimes(r.bs, width, count - 1, Append(acc, r.val))
    IN  IF count = 0 THEN Ok(acc, bs) ELSE next(CastU16(F(bs, width)))

\* ns(n), count times: the values read, in order.
RECURSIVE NsTimes(_, _, _, _)
NsTimes(bs, n, count, acc) ==
    LET next(r) ==
            IF ~r.ok THEN r
            ELSE NsTimes(r.bs, n, count - 1, Append(acc, r.val))
    IN  IF count = 0 THEN Ok(acc, bs) ELSE next(Ns(bs, n))

\* DecodeTargetIndication::from_u2
FromU2(u2) ==
    CASE u2 = 0 -> "NotPresent"
      [] u2 = 1 -> "Discardable"
      [] u2 = 2 -> "Switch"
      [] u2 = 3 -> "Required"

\* SharedStructureTemplate
SharedStructureTemplate(s, t) ==
    [spatial_layer_id |-> s,
     temporal_layer_id |-> t,
     decode_target_indication_by_decode_target_index |-> <<>>,
     referred_relative_frame_numbers |-> <<>>,
     previous_relative_frame_number_by_chain_index |-> <<>>]

\* Parser::mandatory_descriptor_fields
MandatoryDescriptorFields(bs) ==
    LET start_of_frame(p) == Bind(p, "start_of_frame", F1(p.bs))
        end_of_frame(p) == Bind(p, "end_of_frame", F1(p.bs))
        template_id(p) == Bind(p, "template_id", CastU8(F(p.bs, 6)))
        frame_number(p) == Bind(p, "frame_number", CastU16(F(p.bs, 16)))
        result(p) ==
            Return(p, [start_of_frame |-> p.val.start_of_frame,
                       end_of_frame |-> p.val.end_of_frame,
                       template_id |-> p.val.template_id,
                       frame_number |-> p.val.frame_number])
    IN  result(frame_number(template_id(end_of_frame(start_of_frame(Begin(bs))))))

\* The template next_layer_idc 2 appends after `last`.
NextSpatialLayer(last) ==
    [last EXCEPT !.spatial_layer_id = last.temporal_layer_id + 1,
                 !.temporal_layer_id = 0]

\* Parser::template_layers, the loop over next_layer_idc
RECURSIVE TemplateLayersLoop(_, _)
TemplateLayersLoop(bs, templates) ==
    LET last == templates[Len(templates)]
        next(next_layer_idc) ==
            IF ~next_layer_idc.ok THEN next_layer_idc
            ELSE CASE next_layer_idc.val = 0 ->
                        TemplateLayersLoop(next_layer_idc.bs, Append(templates, last))
                   [] next_layer_idc.val = 1 ->
                        IF last.temporal_layer_id + 1 > 255
                        THEN Err("InvalidTemporalLayerId")
                        ELSE TemplateLayersLoop(
                                 next_layer_idc.bs,
                                 Append(templates,
                                        [last EXCEPT !.temporal_layer_id = @ + 1]))
                   [] next_layer_idc.val = 2 ->
                        IF last.temporal_layer_id + 1 > 255
                        THEN Err("InvalidSpatialLayerId")
                        ELSE TemplateLayersLoop(
                                 next_layer_idc.bs,
                                 Append(templates, NextSpatialLayer(last)))
                   [] next_layer_idc.val = 3 ->
                        Ok(templates, next_layer_idc.bs)
    IN  next(CastU8(F(bs, 2)))

\* Parser::template_layers
TemplateLayers(bs, decode_target_count) ==
    TemplateLayersLoop(bs, <<SharedStructureTemplate(0, 0)>>)

\* Parser::frame_dtis (and the inner loop of template_dtis)
FrameDtis(bs, decode_target_count) ==
    LET dtis(r) ==
            IF ~r.ok THEN r
            ELSE Ok([i \in 1..Len(r.val) |-> FromU2(r.val[i])], r.bs)
    IN  dtis(FTimes(bs, 2, decode_target_count, <<>>))

\* Parser::template_dtis, from template i on
RECURSIVE TemplateDtis(_, _, _, _)
TemplateDtis(bs, templates, decode_target_count, i) ==
    LET next(r) ==
            IF ~r.ok THEN r
            ELSE TemplateDtis(
                     r.bs,
                     [templates EXCEPT
                         ![i].decode_target_indication_by_decode_target_index =
                             @ \o r.val],
                     decode_target_count, i + 1)
    IN  IF i > Len(templates)
        THEN Ok(templates, bs)
        ELSE next(FrameDtis(bs, decode_target_count))

\* Parser::template_fdiffs, the fdiffs of one template
RECURSIVE TemplateFdiffsOf(_, _)
TemplateFdiffsOf(bs, acc) ==
    LET fdiff_follows_flag(p) == Bind(p, "fdiff_follows_flag", F1(p.bs))
        fdiff_minus_one(p) ==
            IF p.ok /\ ~p.val.fdiff_follows_flag THEN p
            ELSE Bind(p, "fdiff_minus_one", CastU16(F(p.bs, 4)))
        next(p) ==
            IF ~p.ok THEN p
            ELSE IF ~p.val.fdiff_follows_flag THEN Ok(acc, p.bs)
            ELSE TemplateFdiffsOf(p.bs, Append(acc, p.val.fdiff_minus_one + 1))
    IN  next(fdiff_minus_one(fdiff_follows_flag(Begin(bs))))

\* Parser::template_fdiffs, from template i on
RECURSIVE TemplateFdiffs(_, _, _)
TemplateFdiffs(bs, templates, i) ==
    LET next(r) ==
            IF ~r.ok THEN r
            ELSE TemplateFdiffs(
                     r.bs,
                     [templates EXCEPT ![i].referred_relative_frame_numbers = r.val],
                     i + 1)
    IN  IF i > Len(templates)
        THEN Ok(templates, bs)
        ELSE next(TemplateFdiffsOf(bs, templates[i].referred_relative_frame_numbers))

\* A template_chains that reads one chain fdiff too few for every template.
RECURSIVE TemplateChainFdiffs_OneFewer(_, _, _, _)
TemplateChainFdiffs_OneFewer(bs, templates, chain_count, i) ==
    LET next(r) ==
            IF ~r.ok THEN r
            ELSE TemplateChainFdiffs_OneFewer(
                     r.bs,
                     [templates EXCEPT
                         ![i].previous_relative_frame_number_by_chain_index =
                             @ \o r.val],
                     chain_count, i + 1)
    IN  IF i > Len(templates)
        THEN Ok(templates, bs)
        ELSE next(FTimes(bs, 4, chain_count - 1, <<>>))

\* Parser::template_chains, the chain fdiffs from template i on
RECURSIVE TemplateChainFdiffs(_, _, _, _)
TemplateChainFdiffs(bs, templates, chain_count, i) ==
    LET next(r) ==
            IF ~r.ok THEN r
            ELSE TemplateChainFdiffs(
                     r.bs,
                     [templates EXCEPT
                         ![i].previous_relative_frame_number_by_chain_index =
                             @ \o r.val],
                     chain_count, i + 1)
    IN  IF i > Len(templates)
        THEN Ok(templates, bs)
        ELSE next(FTimes(bs, 4, chain_count, <<>>))

\* Parser::template_chains
TemplateChains(bs, templates, decode_target_count) ==
    LET chain_count(p) ==
            Bind(p, "chain_count", Ns(p.bs, (decode_target_count + 1) % 256))
        protecting(p) ==
            IF p.ok /\ p.val.chain_count = 0 THEN p
            ELSE Bind(p, "protecting_chain_index_by_decode_target_index",
                      NsTimes(p.bs, p.val.chain_count, decode_target_count, <<>>))
        fdiffs(p) ==
            IF p.ok /\ p.val.chain_count = 0 THEN p
            ELSE Bind(p, "templates",
                      TemplateChainFdiffs(p.bs, templates, p.val.chain_count, 1))
        result(p) ==
            IF ~p.ok THEN p
            ELSE IF p.val.chain_count = 0
            THEN Ok([chain_count |-> 0,
                     protecting_chain_index_by_decode_target_index |-> <<>>,
                     templates |-> templates],
                    p.bs)
            ELSE Ok([chain_count |-> p.val.chain_count,
                     protecting_chain_index_by_decode_target_index |->
                         p.val.protecting_chain_index_by_decode_target_index,
                     templates |-> p.val.templates],
                    p.bs)
    IN  result(fdiffs(protecting(chain_count(Begin(bs)))))

\* Parser::render_resolutions: one resolution per spatial id 0..=max
RECURSIVE RenderResolutions(_, _, _)
RenderResolutions(bs, count, acc) ==
    LET max_render_width(p) == Bind(p, "max_render_width", F(p.bs, 16))
        max_render_height(p) == Bind(p, "max_render_height", F(p.bs, 16))
        next(p) ==
            IF ~p.ok THEN p
            ELSE RenderResolutions(
                     p.bs, count - 1,
                     Append(acc,
                            [max_render_width |-> ValueOf(p.val.max_render_width) + 1,
                             max_render_height |->
                                 ValueOf(p.val.max_render_height) + 1]))
    IN  IF count = 0
        THEN Ok(acc, bs)
        ELSE next(max_render_height(max_render_width(Begin(bs))))

Max(S) == CHOOSE x \in S : \A y \in S : y <= x

\* Parser::template_dependency_structure
TemplateDependencyStructure(bs) ==
    LET template_id_offset(p) ==
            Bind(p, "template_id_offset", CastU8(F(p.bs, 6)))
        dt_cnt_minus_one(p) ==
            Bind(p, "dt_cnt_minus_one", CastU8(F(p.bs, 5)))
        decode_target_count(p) ==
            Bind(p, "decode_target_count",
                 Ok((p.val.dt_cnt_minus_one + 1) % 256, p.bs))
        layers(p) ==
            Bind(p, "template_by_id_minus_offset",
                 TemplateLayers(p.bs, p.val.decode_target_count))
        dtis(p) ==
            Bind(p, "template_by_id_minus_offset",
                 TemplateDtis(p.bs, p.val.template_by_id_minus_offset,
                              p.val.decode_target_count, 1))
        fdiffs(p) ==
            Bind(p, "template_by_id_minus_offset",
                 TemplateFdiffs(p.bs, p.val.template_by_id_minus_offset, 1))
        chains(p) ==
            Bind(p, "chains",
                 TemplateChains(p.bs, p.val.template_by_id_minus_offset,
                                p.val.decode_target_count))
        resolutions_present_flag(p) ==
            Bind(p, "resolutions_present_flag", F1(p.bs))
        max_spatial_id(templates) ==
            Max({templates[i].spatial_layer_id : i \in 1..Len(templates)})
        resolution_by_spatial_id(p) ==
            IF p.ok /\ ~p.val.resolutions_present_flag
            THEN Bind(p, "resolution_by_spatial_id", Ok(NoneOpt, p.bs))
            ELSE Bind(p, "resolution_by_spatial_id",
                      SomeOf(RenderResolutions(
                                 p.bs,
                                 max_spatial_id(p.val.chains.templates) + 1,
                                 <<>>)))
        result(p) ==
            Return(p, [decode_target_count |-> p.val.decode_target_count,
                       chain_count |-> p.val.chains.chain_count,
                       protecting_chain_index_by_decode_target_index |->
                           p.val.chains.protecting_chain_index_by_decode_target_index,
                       resolution_by_spatial_id |-> p.val.resolution_by_spatial_id,
                       template_by_id_minus_offset |-> p.val.chains.templates,
                       template_id_offset |-> p.val.template_id_offset])
    IN  result(resolution_by_spatial_id(resolutions_present_flag(chains(fdiffs(
            dtis(layers(decode_target_count(dt_cnt_minus_one(template_id_offset(
                Begin(bs)))))))))))

\* The u32 with the low decode_target_count bits set, as the u32 shift
\* 1u32 << decode_target_count would give it (the shift count wraps at 32).
AllActiveBitmask_U32Shift(decode_target_count) ==
    Sub1(Shl({0}, decode_target_count % 32, 32), 32)

\* ((1u64 << decode_target_count) - 1) as u32
AllActiveBitmask(decode_target_count) ==
    Sub1(Shl({0}, decode_target_count, 64), 64) \cap (0..31)

\* Parser::extended_descriptor_fields
ExtendedDescriptorFields(bs) ==
    LET template_dependency_structure_present_flag(p) ==
            Bind(p, "template_dependency_structure_present_flag", F1(p.bs))
        active_decode_targets_present_flag(p) ==
            Bind(p, "active_decode_targets_present_flag", F1(p.bs))
        custom_dtis_flag(p) == Bind(p, "custom_dtis_flag", F1(p.bs))
        custom_fdiffs_flag(p) == Bind(p, "custom_fdiffs_flag", F1(p.bs))
        custom_chains_flag(p) == Bind(p, "custom_chains_flag", F1(p.bs))
        \* if template_dependency_structure_present_flag { ... }
        shared_structure(p) ==
            IF p.ok /\ ~p.val.template_dependency_structure_present_flag
            THEN Bind(p, "shared_structure", Ok(NoneOpt, p.bs))
            ELSE Bind(p, "shared_structure",
                      SomeOf(TemplateDependencyStructure(p.bs)))
        all_active(p) ==
            Bind(p, "active_decode_targets_bitmask",
                 Ok(IF p.val.template_dependency_structure_present_flag
                    THEN Some(AllActiveBitmask(
                                  Unwrap(p.val.shared_structure).decode_target_count))
                    ELSE NoneOpt,
                    p.bs))
        \* if active_decode_targets_present_flag {
        \*     if let Some(shared_structure) = &shared_structure { ... } }
        active_decode_targets_bitmask(p) ==
            IF p.ok /\ ~(p.val.active_decode_targets_present_flag
                          /\ IsSome(p.val.shared_structure))
            THEN p
            ELSE Bind(p, "active_decode_targets_bitmask",
                      SomeOf(F(p.bs,
                               Unwrap(p.val.shared_structure).decode_target_count)))
        result(p) ==
            Return(p, [custom_flags |-> [chains |-> p.val.custom_chains_flag,
                                         dtis |-> p.val.custom_dtis_flag,
                                         fdiffs |-> p.val.custom_fdiffs_flag],
                       extended_fields |->
                           Some([shared_structure |-> p.val.shared_structure,
                                 active_decode_targets_bitmask |->
                                     p.val.active_decode_targets_bitmask])])
    IN  result(active_decode_targets_bitmask(all_active(shared_structure(
            custom_chains_flag(custom_fdiffs_flag(custom_dtis_flag(
                active_decode_targets_present_flag(
                    template_dependency_structure_present_flag(Begin(bs))))))))))

\* Parser::no_extended_descriptor_fields
NoExtendedDescriptorFields(bs) ==
    Ok([custom_flags |-> [chains |-> FALSE, dtis |-> FALSE, fdiffs |-> FALSE],
        extended_fields |-> NoneOpt],
       bs)

\* Parser::frame_fdiffs
RECURSIVE FrameFdiffs(_, _)
FrameFdiffs(bs, acc) ==
    LET size(p) == Bind(p, "size", CastU8(F(p.bs, 2)))
        frame_diff_size(p) ==
            Bind(p, "frame_diff_size", Ok((p.val.size * 4) % 256, p.bs))
        fdiff_minus_one(p) ==
            IF p.ok /\ p.val.frame_diff_size = 0 THEN p
            ELSE Bind(p, "fdiff_minus_one",
                      CastU16(F(p.bs, p.val.frame_diff_size)))
        next(p) ==
            IF ~p.ok THEN p
            ELSE IF p.val.frame_diff_size = 0 THEN Ok(acc, p.bs)
            ELSE FrameFdiffs(p.bs, Append(acc, p.val.fdiff_minus_one + 1))
    IN  next(fdiff_minus_one(frame_diff_size(size(Begin(bs)))))

\* Parser::frame_chains
FrameChains(bs, chain_count) == FTimes(bs, 8, chain_count, <<>>)

\* Vec::get(index).cloned(), index counted from 0
Get(vec, index) == IF index < Len(vec) THEN Some(vec[index + 1]) ELSE NoneOpt

\* Parser::frame_dependency_definition
FrameDependencyDefinition(bs, shared_structure, template_id, custom_flags) ==
    LET template_id_minus_offset ==
            (template_id + 64 - shared_structure.template_id_offset) % 64
        found == Get(shared_structure.template_by_id_minus_offset,
                     template_id_minus_offset)
        template == Unwrap(found)
        dtis(p) ==
            Bind(p, "dtis",
                 IF custom_flags.dtis
                 THEN FrameDtis(p.bs, shared_structure.decode_target_count)
                 ELSE Ok(template.decode_target_indication_by_decode_target_index,
                         p.bs))
        fdiffs(p) ==
            Bind(p, "fdiffs",
                 IF custom_flags.fdiffs
                 THEN FrameFdiffs(p.bs, <<>>)
                 ELSE Ok(template.referred_relative_frame_numbers, p.bs))
        chains(p) ==
            Bind(p, "chains",
                 IF custom_flags.chains
                 THEN FrameChains(p.bs, shared_structure.chain_count)
                 ELSE Ok(template.previous_relative_frame_number_by_chain_index,
                         p.bs))
        resolution ==
            IF IsSome(shared_structure.resolution_by_spatial_id)
            THEN Get(Unwrap(shared_structure.resolution_by_spatial_id),
                     template.spatial_layer_id)
            ELSE NoneOpt
        result(p) ==
            Return(p, [spatial_layer_id |-> template.spatial_layer_id,
                       temporal_layer_id |-> template.temporal_layer_id,
                       decode_target_indication_by_decode_target_index |->
                           p.val.dtis,
                       referred_relative_frame_numbers |-> p.val.fdiffs,
                       previous_relative_frame_number_by_chain_index |->
                           p.val.chains,
                       resolution |-> resolution])
    IN  IF ~IsSome(found)
        THEN Err("InvalidTemplateId")
        ELSE result(chains(fdiffs(dtis(Begin(bs)))))

\* SharedStructure::layer_ids_by_decode_target_index
LayerIdsByDecodeTargetIndex(shared_structure) ==
    [decode_target_index \in 1..shared_structure.decode_target_count |->
        LET present ==
                {i \in 1..Len(shared_structure.template_by_id_minus_offset) :
                    LET dtis == shared_structure.template_by_id_minus_offset[i]
                                    .decode_target_indication_by_decode_target_index
                    IN  /\ decode_target_index <= Len(dtis)
                        /\ dtis[decode_target_index] # "NotPresent"}
        IN  <<Max({0} \cup {shared_structure.template_by_id_minus_offset[i]
                               .spatial_layer_id : i \in present}),
              Max({0} \cup {shared_structure.template_by_id_minus_offset[i]
                               .temporal_layer_id : i \in present})>>]

\* The decode_targets of dependency_descriptor
DecodeTargets(shared_structure, active_decode_targets_bitmask, frame_dependency_definition) ==
    [i \in 1..shared_structure.decode_target_count |->
        [spatial_layer_id |-> LayerIdsByDecodeTargetIndex(shared_structure)[i][1],
         temporal_layer_id |-> LayerIdsByDecodeTargetIndex(shared_structure)[i][2],
         active |-> ReadLsBitOfU32(active_decode_targets_bitmask, i - 1),
         indication |->
            IF IsSome(Get(frame_dependency_definition
                              .decode_target_indication_by_decode_target_index,
                          i - 1))
            THEN frame_dependency_definition
                     .decode_target_indication_by_decode_target_index[i]
            ELSE "NotPresent",
         protecting_chain_index |->
            Get(shared_structure.protecting_chain_index_by_decode_target_index,
                i - 1)]]

\* An updated_shared_structure that falls back to the cached structure.
UpdatedSharedStructure_OrLatest(extended_fields, latest_shared_structure) ==
    OrOpt(IF IsSome(extended_fields) THEN Unwrap(extended_fields).shared_structure
          ELSE NoneOpt,
          latest_shared_structure)

\* The updated_shared_structure a parse returns: the structure of the
\* extended fields, if any.
UpdatedSharedStructure(extended_fields, latest_shared_structure) ==
    IF IsSome(extended_fields) THEN Unwrap(extended_fields).shared_structure
    ELSE NoneOpt

\* The udpated_active_decode_targets_bitmask a parse returns.
UpdatedActiveDecodeTargetsBitmask(extended_fields, latest_bitmask) ==
    IF IsSome(extended_fields)
    THEN Unwrap(extended_fields).active_decode_targets_bitmask
    ELSE NoneOpt

\* Parser::dependency_descriptor
DependencyDescriptor(bs, latest_shared_structure, latest_active_decode_targets_bitmask) ==
    LET mandatory_fields(p) ==
            Bind(p, "mandatory_fields", MandatoryDescriptorFields(p.bs))
        extended(p) ==
            Bind(p, "extended",
                 IF ~BitStreamIsEmpty(p.bs)
                 THEN ExtendedDescriptorFields(p.bs)
                 ELSE NoExtendedDescriptorFields(p.bs))
        shared_structure(p) ==
            Bind(p, "shared_structure",
                 SomeOr(OrOpt(IF IsSome(p.val.extended.extended_fields)
                              THEN Unwrap(p.val.extended.extended_fields)
                                       .shared_structure
                              ELSE NoneOpt,
                              latest_shared_structure),
                        "UnknownSharedStructure", p.bs))
        active_decode_targets_bitmask(p) ==
            Bind(p, "active_decode_targets_bitmask",
                 SomeOr(OrOpt(IF IsSome(p.val.extended.extended_fields)
                              THEN Unwrap(p.val.extended.extended_fields)
                                       .active_decode_targets_bitmask
                              ELSE NoneOpt,
                              latest_active_decode_targets_bitmask),
                        "UnknownActiveDecodeTargetBitmask", p.bs))
        frame_dependency_definition(p) ==
            Bind(p, "frame_dependency_definition",
                 FrameDependencyDefinition(p.bs, p.val.shared_structure,
                                           p.val.mandatory_fields.template_id,
                                           p.val.extended.custom_flags))
        result(p) ==
            Return(p,
                [truncated_frame_number |-> p.val.mandatory_fields.frame_number,
                 spatial_layer_id |-> p.val.frame_dependency_definition.spatial_layer_id,
                 temporal_layer_id |->
                     p.val.frame_dependency_definition.temporal_layer_id,
                 resolution |-> p.val.frame_dependency_definition.resolution,
                 referred_relative_frame_numbers |->
                     p.val.frame_dependency_definition.referred_relative_frame_numbers,
                 previous_relative_frame_number_by_chain_index |->
                     p.val.frame_dependency_definition
                         .previous_relative_frame_number_by_chain_index,
                 is_first_packet |-> p.val.mandatory_fields.start_of_frame,
                 is_last_packet |-> p.val.mandatory_fields.end_of_frame,
                 decode_targets |->
                     DecodeTargets(p.val.shared_structure,
                                   p.val.active_decode_targets_bitmask,
                                   p.val.frame_dependency_definition),
                 udpated_active_decode_targets_bitmask |->
                     UpdatedActiveDecodeTargetsBitmask(
                         p.val.extended.extended_fields,
                         latest_active_decode_targets_bitmask),
                 updated_shared_structure |->
                     UpdatedSharedStructure(p.val.extended.extended_fields,
                                            latest_shared_structure)])
    IN  result(frame_dependency_definition(active_decode_targets_bitmask(
            shared_structure(extended(mandatory_fields(Begin(bs)))))))

\* UnparsedSerializedDescriptor::parse
Parse(bytes, latest_shared_structure, latest_active_decode_targets_bitmask) ==
    DependencyDescriptor(BitStreamNew(bytes), latest_shared_structure,
                         latest_active_decode_targets_bitmask)

(***************************************************************************)
(* The descriptors handed to the parser: the bytes an encoder writes for   *)
(* the fields chosen below, mandatory fields alone, and cut-off ones.      *)
(***************************************************************************)

\* Most next_layer_idc values (before the terminating 3) of a structure.
MaxIdc == 2

\* v in n bits, most significant first
Bits(v, n) == [i \in 1..n |-> IF n - i > 30 THEN 0 ELSE (v \div Pow2(n - i)) % 2]

RECURSIVE Rep(_, _)
Rep(bits, k) == IF k = 0 THEN <<>> ELSE bits \o Rep(bits, k - 1)

RECURSIVE Flatten(_)
Flatten(seqs) == IF seqs = <<>> THEN <<>> ELSE Head(seqs) \o Flatten(Tail(seqs))

BitAt(bits, i) == IF i <= Len(bits) THEN bits[i] ELSE 0

\* The bits packed into bytes, zero_padding at the end.
BytesOf(bits) ==
    [b \in 1..((Len(bits) + 7) \div 8) |->
        LET o == 8 * (b - 1)
        IN  128 * BitAt(bits, o + 1) + 64 * BitAt(bits, o + 2)
            + 32 * BitAt(bits, o + 3) + 16 * BitAt(bits, o + 4)
            + 8 * BitAt(bits, o + 5) + 4 * BitAt(bits, o + 6)
            + 2 * BitAt(bits, o + 7) + BitAt(bits, o + 8)]

\* ns(n) written for the value v < n
NsBits(n, v) ==
    LET w == BitLength(n)
        m == Pow2(w) - n
    IN  IF v < m THEN Bits(v, w - 1) ELSE Bits(v + m, w)

\* The number of spatial layers the next_layer_idc values describe.
SpatialLayers(idcs) == 1 + Cardinality({i \in 1..Len(idcs) : idcs[i] = 2})

\* template_dependency_structure() of a structure with Len(idcs) + 1
\* templates, every template with the DTI dti for every decode target,
\* the fdiffs `fdiffs` and the chain fdiff 1 for every chain.
StructureBits(st) ==
    LET templates == Len(st.idcs) + 1
    IN  Bits(st.template_id_offset, 6)
        \o Bits(st.decode_target_count - 1, 5)
        \o Flatten([i \in 1..Len(st.idcs) |-> Bits(st.idcs[i], 2)])
        \o Bits(3, 2)
        \o Rep(Bits(st.dti, 2), templates * st.decode_target_count)
        \o Rep(Flatten([i \in 1..Len(st.fdiffs) |-> <<1>> \o Bits(st.fdiffs[i] - 1, 4)])
                 \o <<0>>, templates)
        \o NsBits(st.decode_target_count + 1, st.chain_count)
        \o (IF st.chain_count > 0
            THEN Rep(NsBits(st.chain_count, st.chain_count - 1), st.decode_target_count)
                 \o Rep(Bits(1, 4), templates * st.chain_count)
            ELSE <<>>)
        \o (IF st.resolutions
            THEN <<1>> \o Rep(Bits(639, 16) \o Bits(359, 16), SpatialLayers(st.idcs))
            ELSE <<0>>)

Structure(dtc, idcs, fdiffs, chain_count, resolutions) ==
    [template_id_offset |-> 0, decode_target_count |-> dtc, idcs |-> idcs,
     dti |-> 2, fdiffs |-> fdiffs, chain_count |-> chain_count,
     resolutions |-> resolutions]

\* dependency_descriptor(): the mandatory fields and, for d.extended, the
\* five flags and what they announce. d.decode_target_count and
\* d.chain_count are the counts of the structure the encoder refers to.
DescriptorBits(d) ==
    <<1, 1>> \o Bits(d.template_id, 6) \o Bits(258, 16)
    \o (IF ~d.extended THEN <<>>
        ELSE <<d.structure_present, d.active_present, d.custom_dtis,
               d.custom_fdiffs, d.custom_chains>>
             \o (IF d.structure_present = 1 THEN StructureBits(d.structure) ELSE <<>>)
             \o (IF d.active_present = 1
                 THEN Bits(d.bitmask, d.decode_target_count) ELSE <<>>)
             \o (IF d.custom_dtis = 1
                 THEN Rep(Bits(3, 2), d.decode_target_count) ELSE <<>>)
             \o (IF d.custom_fdiffs = 1
                 THEN Bits(1, 2) \o Bits(4, 4) \o Bits(0, 2) ELSE <<>>)
             \o (IF d.custom_chains = 1
                 THEN Rep(Bits(7, 8), d.chain_count) ELSE <<>>))

IdcLists == UNION {[1..n -> {0, 1, 2}] : n \in 0..MaxIdc}

Bit == {0, 1}

\* Descriptors that carry a structure of one decode target, one for every
\* list of next_layer_idc values.
LayerDescriptors ==
    {[extended |-> TRUE, template_id |-> 0, structure_present |-> 1,
      active_present |-> 0, custom_dtis |-> 0, custom_fdiffs |-> 0,
      custom_chains |-> 0, structure |-> Structure(1, idcs, <<>>, 0, FALSE),
      decode_target_count |-> 1, chain_count |-> 0, bitmask |-> 0] :
        idcs \in IdcLists}

\* Descriptors that carry a structure of 1, 2 or 32 decode targets.
CountDescriptors ==
    {[extended |-> TRUE, template_id |-> 0, structure_present |-> 1,
      active_present |-> a, custom_dtis |-> cd, custom_fdiffs |-> 0,
      custom_chains |-> cc,
      structure |-> Structure(dtc, <<1>>, <<1>>, chains, chains = 1),
      decode_target_count |-> dtc, chain_count |-> chains, bitmask |-> 1] :
        dtc \in {1, 2, 32}, chains \in {0, 1}, a \in Bit, cd \in Bit, cc \in Bit}

\* Descriptors that carry a structure with as many chains as decode
\* targets, every decode target protected by the last chain.
ChainDescriptors ==
    {[extended |-> TRUE, template_id |-> 0, structure_present |-> 1,
      active_present |-> 0, custom_dtis |-> 0, custom_fdiffs |-> 0,
      custom_chains |-> 0,
      structure |-> Structure(dtc, <<1>>, <<1, 16>>, dtc, FALSE),
      decode_target_count |-> dtc, chain_count |-> dtc, bitmask |-> 1] :
        dtc \in {2, 32}}

\* Descriptors with extended fields and no structure, written against a
\* cached structure of dtc decode targets.
FrameDescriptors ==
    {[extended |-> TRUE, template_id |-> tid, structure_present |-> 0,
      active_present |-> a, custom_dtis |-> cd, custom_fdiffs |-> cf,
      custom_chains |-> 0, structure |-> Structure(1, <<>>, <<>>, 0, FALSE),
      decode_target_count |-> dtc, chain_count |-> 0, bitmask |-> bm] :
        tid \in {0, 1}, a \in Bit, cd \in Bit, cf \in Bit, dtc \in {2},
        bm \in {1, 2}}

\* Descriptors of the mandatory fields alone (3 bytes).
MandatoryDescriptors ==
    {[extended |-> FALSE, template_id |-> tid, structure_present |-> 0,
      active_present |-> 0, custom_dtis |-> 0, custom_fdiffs |-> 0,
      custom_chains |-> 0, structure |-> Structure(1, <<>>, <<>>, 0, FALSE),
      decode_target_count |-> 1, chain_count |-> 0, bitmask |-> 0] :
        tid \in {0, 1, 5}}

WholeDescriptors ==
    {BytesOf(DescriptorBits(d)) :
        d \in LayerDescriptors \cup CountDescriptors \cup ChainDescriptors
              \cup FrameDescriptors \cup MandatoryDescriptors}

\* Descriptors that lost their last byte.
CutDescriptors ==
    {SubSeq(b, 1, Len(b) - 1) :
        b \in {BytesOf(DescriptorBits(d)) : d \in CountDescriptors}}

\* Whole descriptors, cut ones, and byte strings shorter than the mandatory
\* fields.
Descriptors ==
    WholeDescriptors \cup CutDescriptors \cup {<<>>, <<192>>, <<192, 1>>}

(***************************************************************************)
(* The host of the parser: it hands a descriptor to parse together with    *)
(* the values it cached (or none), and caches the updated values that a    *)
(* successful parse returns.                                               *)
(***************************************************************************)

NotParsed == Err("NotParsed")

NoCache == [shared_structure |-> NoneOpt, bitmask |-> NoneOpt]

InitDD ==
    /\ latest = NoCache
    /\ descriptor = <<>>
    /\ passed = NoCache
    /\ parsed = NotParsed
    /\ pc = "idle"

\* The host calls UnparsedSerializedDescriptor::parse.
ParseDescriptor ==
    /\ pc = "idle"
    /\ \E bytes \in Descriptors,
          ss \in {NoneOpt, latest.shared_structure},
          bm \in {NoneOpt, latest.bitmask} :
          /\ descriptor' = bytes
          /\ passed' = [shared_structure |-> ss, bitmask |-> bm]
          /\ parsed' = Parse(bytes,
                             IF IsSome(ss) THEN Some(Unwrap(ss)) ELSE NoneOpt,
                             bm)
    /\ pc' = "parsed"
    /\ UNCHANGED <<latest, extVars, alVars, moreVars>>

\* "The caller must cache the latest non-None values and pass them back."
\* The host keeps them and drops the rest of the result.
Retain ==
    /\ pc = "parsed"
    /\ latest' =
         IF parsed.ok
         THEN [shared_structure |->
                   OrOpt(parsed.val.updated_shared_structure, latest.shared_structure),
               bitmask |->
                   OrOpt(parsed.val.udpated_active_decode_targets_bitmask,
                         latest.bitmask)]
         ELSE latest
    /\ descriptor' = <<>>
    /\ passed' = NoCache
    /\ parsed' = NotParsed
    /\ pc' = "idle"
    /\ UNCHANGED <<extVars, alVars, moreVars>>

NextDD == ParseDescriptor \/ Retain

(***************************************************************************)
(* Dependency Descriptor: what the wire format says of `descriptor`, and   *)
(* the properties of the result of parsing it.                             *)
(***************************************************************************)

\* Bit i of the descriptor, bit 0 the most significant bit of byte 0.
WireBit(i) == (descriptor[(i \div 8) + 1] \div Pow2(7 - (i % 8))) % 2

\* The n bits from bit `pos` on, as a number (n < 31).
RECURSIVE WireField(_, _)
WireField(pos, n) ==
    IF n = 0 THEN 0 ELSE 2 * WireField(pos, n - 1) + WireBit(pos + n - 1)

\* The n bits from bit `pos` on, as a word.
WireWord(pos, n) == {j \in 0..(n - 1) : WireBit(pos + n - 1 - j) = 1}

HasExtendedFields == Len(descriptor) > 3
StructurePresentFlag == WireBit(24)
ActivePresentFlag == WireBit(25)
CustomDtisFlag == WireBit(26)
WireTemplateIdOffset == WireField(29, 6)
WireDecodeTargetCount == WireField(35, 5) + 1

\* The next_layer_idc values from bit `pos` on, up to the terminating 3.
RECURSIVE WireIdcs(_)
WireIdcs(pos) ==
    IF WireField(pos, 2) = 3 THEN <<>>
    ELSE <<WireField(pos, 2)>> \o WireIdcs(pos + 2)

\* The layer ids <<s, t>> of the templates that the next_layer_idc values
\* describe: 0 -> (s, t), 1 -> (s, t+1), 2 -> (s+1, 0).
RECURSIVE LayerIdsOfIdcs(_, _)
LayerIdsOfIdcs(idcs, ids) ==
    IF idcs = <<>> THEN ids
    ELSE LET last == ids[Len(ids)]
             next == CASE Head(idcs) = 0 -> last
                       [] Head(idcs) = 1 -> <<last[1], last[2] + 1>>
                       [] Head(idcs) = 2 -> <<last[1] + 1, 0>>
         IN  LayerIdsOfIdcs(Tail(idcs), Append(ids, next))

\* The stream behind the five flags of the extended fields.
StreamBehindFlags == [bytes |-> SubSeq(descriptor, 4, Len(descriptor)), bit_index |-> 5]

\* The position of a stream in the descriptor, in bits.
StreamPos(bs) == 8 * (Len(descriptor) - Len(bs.bytes)) + bs.bit_index

Parsed == pc = "parsed" /\ parsed.ok

\* C5: whenever active_decode_targets_present_flag is 1, the parse consumes
\* decode_target_count bits behind the flags (and the structure, if the
\* descriptor carries one) as the bitmask and returns them as the updated
\* bitmask, decode_target_count coming from the cached structure when the
\* descriptor carries none; custom DTIs are read behind those bits.
C5_ActiveBitmaskConsumed ==
    (Parsed /\ HasExtendedFields /\ ActivePresentFlag = 1) =>
        LET behind_structure ==
                IF StructurePresentFlag = 1
                THEN TemplateDependencyStructure(StreamBehindFlags).bs
                ELSE StreamBehindFlags
            n == IF StructurePresentFlag = 1
                 THEN WireDecodeTargetCount
                 ELSE Unwrap(passed.shared_structure).decode_target_count
            pos == StreamPos(behind_structure)
        IN  /\ pos + n <= 8 * Len(descriptor)
            /\ parsed.val.udpated_active_decode_targets_bitmask
                   = Some(WireWord(pos, n))
            /\ CustomDtisFlag = 1 =>
                   /\ pos + 3 * n <= 8 * Len(descriptor)
                   /\ \A i \in 1..n :
                          parsed.val.decode_targets[i].indication
                              = FromU2(WireField(pos + n + 2 * (i - 1), 2))

\* C6: the templates of a parsed structure have the layer ids the
\* next_layer_idc table gives, starting from (0, 0).
C6_TemplateLayersFollowIdc ==
    (Parsed /\ HasExtendedFields /\ StructurePresentFlag = 1) =>
        LET templates ==
                Unwrap(parsed.val.updated_shared_structure).template_by_id_minus_offset
        IN  [i \in 1..Len(templates) |->
                <<templates[i].spatial_layer_id, templates[i].temporal_layer_id>>]
            = LayerIdsOfIdcs(WireIdcs(40), <<(<<0, 0>>)>>)

\* C7: a descriptor with a structure of n decode targets and
\* active_decode_targets_present_flag 0 parses to the updated bitmask
\* 2^n - 1 and n active decode targets, whatever bitmask was passed in.
C7_AllActiveDefault ==
    (Parsed /\ HasExtendedFields /\ StructurePresentFlag = 1 /\ ActivePresentFlag = 0) =>
        /\ parsed.val.udpated_active_decode_targets_bitmask
               = Some(0..(WireDecodeTargetCount - 1))
        /\ Len(parsed.val.decode_targets) = WireDecodeTargetCount
        /\ \A i \in 1..WireDecodeTargetCount : parsed.val.decode_targets[i].active

\* A structure of 32 decode targets parsed while another bitmask is cached
\* and passed in.
C7_Witness ==
    /\ Parsed /\ HasExtendedFields
    /\ StructurePresentFlag = 1 /\ ActivePresentFlag = 0
    /\ WireDecodeTargetCount = 32
    /\ IsSome(passed.bitmask)
    /\ passed.bitmask # Some(0..31)

\* C8: a descriptor of at least 3 bytes that carries no structure fails with
\* UnknownSharedStructure when no cached structure is passed; with a cached
\* structure, no bitmask announced by the descriptor and no cached bitmask
\* it fails with UnknownActiveDecodeTargetBitmask.
C8_UnknownCacheErrors ==
    (pc = "parsed" /\ Len(descriptor) >= 3) =>
        /\ ((~HasExtendedFields \/ StructurePresentFlag = 0)
              /\ ~IsSome(passed.shared_structure))
           => parsed = Err("UnknownSharedStructure")
        /\ ((~HasExtendedFields \/ (StructurePresentFlag = 0 /\ ActivePresentFlag = 0))
              /\ IsSome(passed.shared_structure)
              /\ ~IsSome(passed.bitmask))
           => parsed = Err("UnknownActiveDecodeTargetBitmask")

\* A descriptor of the mandatory fields alone, parsed with the cached
\* structure and without a bitmask.
C8_Witness ==
    /\ pc = "parsed" /\ Len(descriptor) = 3
    /\ IsSome(passed.shared_structure)
    /\ ~IsSome(passed.bitmask)
    /\ ~parsed.ok

\* C9: a successful parse returns an updated_shared_structure exactly when
\* the descriptor carries a structure, and it is that structure; without
\* extended fields both updates are None.
C9_UpdatesOnlyFromPacket ==
    Parsed =>
        /\ IsSome(parsed.val.updated_shared_structure)
               <=> (HasExtendedFields /\ StructurePresentFlag = 1)
        /\ (HasExtendedFields /\ StructurePresentFlag = 1) =>
               LET s == Unwrap(parsed.val.updated_shared_structure)
               IN  /\ s.template_id_offset = WireTemplateIdOffset
                   /\ s.decode_target_count = WireDecodeTargetCount
                   /\ Len(s.template_by_id_minus_offset) = Len(WireIdcs(40)) + 1
        /\ ~HasExtendedFields =>
               /\ parsed.val.updated_shared_structure = NoneOpt
               /\ parsed.val.udpated_active_decode_targets_bitmask = NoneOpt

\* A descriptor without extended fields parsed against a cached structure
\* and bitmask.
C9_Witness ==
    /\ Parsed /\ ~HasExtendedFields
    /\ IsSome(passed.shared_structure)
    /\ IsSome(passed.bitmask)

\* C28: the SharedStructure a successful parse returns has between 1 and
\* 32 decode targets, at most as many chains as decode targets, and at
\* least one template; every template has one DTI for each decode target,
\* one chain fdiff in 0..15 for each chain and fdiffs in 1..16; with
\* chains, there is one protecting chain index for each decode target,
\* each below chain_count.
C28_SharedStructureInvariants ==
    (Parsed /\ IsSome(parsed.val.updated_shared_structure)) =>
        LET s == Unwrap(parsed.val.updated_shared_structure)
            templates == s.template_by_id_minus_offset
            protecting == s.protecting_chain_index_by_decode_target_index
        IN  /\ s.decode_target_count \in 1..32
            /\ s.chain_count \in 0..s.decode_target_count
            /\ Len(templates) >= 1
            /\ \A i \in 1..Len(templates) :
                  /\ Len(templates[i].decode_target_indication_by_decode_target_index)
                       = s.decode_target_count
                  /\ Len(templates[i].previous_relative_frame_number_by_chain_index)
                       = s.chain_count
                  /\ \A c \in 1..s.chain_count :
                        templates[i].previous_relative_frame_number_by_chain_index[c]
                        \in 0..15
                  /\ \A k \in 1..Len(templates[i].referred_relative_frame_numbers) :
                        templates[i].referred_relative_frame_numbers[k] \in 1..16
            /\ s.chain_count > 0 =>
                  /\ Len(protecting) = s.decode_target_count
                  /\ \A d \in 1..Len(protecting) : protecting[d] \in 0..(s.chain_count - 1)

\* C28 witness: a structure of 32 decode targets and 32 chains, every
\* decode target protected by chain 31, with the fdiffs 1 and 16.
C28_Witness ==
    /\ Parsed /\ IsSome(parsed.val.updated_shared_structure)
    /\ LET s == Unwrap(parsed.val.updated_shared_structure)
       IN  /\ s.decode_target_count = 32
           /\ s.chain_count = 32
           /\ s.protecting_chain_index_by_decode_target_index = [d \in 1..32 |-> 31]
           /\ Len(s.template_by_id_minus_offset) = 2
           /\ s.template_by_id_minus_offset[2].referred_relative_frame_numbers
                = <<1, 16>>
           /\ s.template_by_id_minus_offset[2]
                  .previous_relative_frame_number_by_chain_index
                = [c \in 1..32 |-> 1]

(***************************************************************************)
(* Extension::AudioLevel (ext.rs): write_to and parse_value                *)
(***************************************************************************)

I8 == -128..127
U8 == 0..255

\* x as u8 for an i8 x, b as i8 for a u8 b
I8AsU8(x) == x % 256
U8AsI8(b) == IF b >= 128 THEN b - 256 ELSE b

BitOf(b, i) == (b \div Pow2(i)) % 2

\* a & b and a | b on u8
BitAnd8(a, b) ==
    LET and(i) == BitOf(a, i) * BitOf(b, i)
    IN  and(0) + 2 * and(1) + 4 * and(2) + 8 * and(3)
        + 16 * and(4) + 32 * and(5) + 64 * and(6) + 128 * and(7)

BitOr8(a, b) ==
    LET or(i) == IF BitOf(a, i) + BitOf(b, i) > 0 THEN 1 ELSE 0
    IN  or(0) + 2 * or(1) + 4 * or(2) + 8 * or(3)
        + 16 * or(4) + 32 * or(5) + 64 * or(6) + 128 * or(7)

\* a & b on i8
BitAndI8(a, b) == U8AsI8(BitAnd8(I8AsU8(a), I8AsU8(b)))

\* -x on i8, wrapping
NegI8(x) == U8AsI8(I8AsU8(0 - x))

\* ExtensionValues, the two fields of AudioLevel
NoValues == [audio_level |-> NoneOpt, voice_activity |-> NoneOpt]

\* Extension::write_to, AudioLevel:
\*   buf[0] = if v2 { 0x80 } else { 0 } | (-(0x7f & v1) as u8)
WriteToAudioLevel(b, e) ==
    IF ~IsSome(e.audio_level) \/ ~IsSome(e.voice_activity)
    THEN [buf |-> b, written |-> NoneOpt]
    ELSE LET v1 == Unwrap(e.audio_level)
             v2 == Unwrap(e.voice_activity)
         IN  [buf |-> [b EXCEPT ![1] =
                          BitOr8(IF v2 THEN 128 ELSE 0,
                                 I8AsU8(NegI8(BitAndI8(127, v1))))],
              written |-> Some(1)]

\* Extension::parse_value, AudioLevel:
\*   audio_level = -(0x7f & buf[0] as i8), voice_activity = buf[0] & 0x80 > 0
ParseValueAudioLevel(b, vals) ==
    IF b = <<>>
    THEN vals
    ELSE [vals EXCEPT
             !.audio_level = Some(NegI8(BitAndI8(127, U8AsI8(b[1])))),
             !.voice_activity = Some(BitAnd8(b[1], 128) > 0)]

InitAL ==
    /\ ev = NoValues
    /\ buf = <<0>>
    /\ written = NoneOpt
    /\ values = NoValues
    /\ al_pc = "write"

\* The sender serialises the AudioLevel of some ExtensionValues into a
\* one byte buffer.
WriteTo ==
    /\ al_pc = "write"
    /\ \E level \in {NoneOpt} \cup {Some(l) : l \in I8},
          voice \in {NoneOpt, Some(TRUE), Some(FALSE)} :
          LET e == [audio_level |-> level, voice_activity |-> voice]
              w == WriteToAudioLevel(<<0>>, e)
          IN  /\ ev' = e
              /\ buf' = w.buf
              /\ written' = w.written
    /\ values' = NoValues
    /\ al_pc' = IF IsSome(written') THEN "parse" ELSE "write"
    /\ UNCHANGED <<extVars, ddVars, moreVars>>

\* The receiver parses the byte that was written.
ParseValue ==
    /\ al_pc = "parse"
    /\ values' = ParseValueAudioLevel(buf, NoValues)
    /\ al_pc' = "done"
    /\ UNCHANGED <<ev, buf, written, extVars, ddVars, moreVars>>

\* The next packet.
NextPacket ==
    /\ al_pc = "done"
    /\ al_pc' = "write"
    /\ UNCHANGED <<ev, buf, written, values, extVars, ddVars, moreVars>>

NextAL == WriteTo \/ ParseValue \/ NextPacket

\* C10: for audio_level in -127..=0 and either voice_activity, write_to
\* emits one byte with top bit voice_activity and low 7 bits -audio_level,
\* and parse_value of that byte returns the same pair.
C10_AudioLevelRoundTrip ==
    (al_pc = "done" /\ IsSome(ev.audio_level) /\ IsSome(ev.voice_activity)
       /\ Unwrap(ev.audio_level) \in -127..0) =>
        /\ written = Some(1)
        /\ (buf[1] >= 128) = Unwrap(ev.voice_activity)
        /\ buf[1] % 128 = 0 - Unwrap(ev.audio_level)
        /\ values = ev

(***************************************************************************)
(* VideoLayersAllocation (ext.rs): parse                                   *)
(***************************************************************************)

\* read_bits: (bits >> (8 - range.end)) & (0b1111_1111 >> (8 - range.len())),
\* bit 0 the most significant
ReadBits(bits, start, end) == (bits \div Pow2(8 - end)) % Pow2(end - start)

\* read_bit of ext.rs
ReadBitOfU8(bits, index) == ReadBits(bits, index, index + 1) > 0

\* A split_at that reads zeros past the end of a buffer that is too short.
SplitAt_Padded(b, mid) ==
    Some([left |-> [i \in 1..mid |-> IF i <= Len(b) THEN b[i] ELSE 0],
          right |-> SubSeq(b, mid + 1, Len(b))])

\* split_at: Some((left, right)) or None
SplitAt(b, mid) ==
    IF mid > Len(b)
    THEN NoneOpt
    ELSE Some([left |-> SubSeq(b, 1, mid), right |-> SubSeq(b, mid + 1, Len(b))])

\* div_round_up
DivRoundUp(top, bottom) == IF top = 0 THEN 0 ELSE ((top - 1) \div bottom) + 1

\* A split_byte_in2 with the low nibble first.
SplitByteIn2_LowFirst(byte) == <<ReadBits(byte, 4, 8), ReadBits(byte, 0, 4)>>

\* split_byte_in2, split_byte_in4
SplitByteIn2(byte) == <<ReadBits(byte, 0, 4), ReadBits(byte, 4, 8)>>

SplitByteIn4(byte) ==
    <<ReadBits(byte, 0, 2), ReadBits(byte, 2, 4),
      ReadBits(byte, 4, 6), ReadBits(byte, 6, 8)>>

\* The four bools of the lower 4 bits, not truncated.
TruncatedBoolsFromLower4Bits_All4(bits) ==
    [k \in 1..4 |-> ReadBitOfU8(bits, 8 - k)]

\* truncated_bools_from_lower_4bits
TruncatedBoolsFromLower4Bits(bits) ==
    LET high(index) == ReadBitOfU8(bits, 7 - index)
        count == IF \E index \in 0..3 : high(index)
                 THEN Max({index + 1 : index \in {i \in 0..3 : high(i)}})
                 ELSE 0
    IN  [k \in 1..count |-> high(k - 1)]

\* `(chunk as u64) << amount`: the u64 as the set of its one bits.  An
\* amount of 64 or more is an overflow of the shift: a build with overflow
\* checks panics there, a build without them shifts by amount % 64.
LebShl(chunk, amount) ==
    [word |-> Shl(WordOf(chunk), amount % 64, 64), overflow |-> amount >= 64]

\* `result |= shifted`
LebOr(result, shifted) ==
    [word |-> result.word \cup shifted.word,
     overflow |-> result.overflow \/ shifted.overflow]

\* parse_leb_u64: (value, rest), the value as the set of its one bits.
\* `overflow` tells that a shift overflowed on the way: the call panics in
\* a build with overflow checks and returns (value, rest) in one without.
RECURSIVE ParseLebU64Loop(_, _, _)
ParseLebU64Loop(bytes, index, result) ==
    IF index >= Len(bytes)
    THEN [value |-> {}, rest |-> bytes, overflow |-> result.overflow]
    ELSE LET next(r) ==
                 IF ~ReadBitOfU8(bytes[index + 1], 0)
                 THEN [value |-> r.word,
                       rest |-> SubSeq(bytes, index + 2, Len(bytes)),
                       overflow |-> r.overflow]
                 ELSE ParseLebU64Loop(bytes, index + 1, r)
         IN  next(LebOr(result,
                        LebShl(ReadBits(bytes[index + 1], 1, 8), 7 * index)))

ParseLebU64(bytes) ==
    ParseLebU64Loop(bytes, 0, [word |-> {}, overflow |-> FALSE])

\* iter().flat_map(|&byte| split_byte_in2(byte)) and
\* iter().flat_map(|&byte| split_byte_in4(byte))
FlatMapIn2(bytes) == Flatten([i \in 1..Len(bytes) |-> SplitByteIn2(bytes[i])])

FlatMapIn4(bytes) == Flatten([i \in 1..Len(bytes) |-> SplitByteIn4(bytes[i])])

\* Iterator::take

Take(s, n) == SubSeq(s, 1, IF n < Len(s) THEN n ELSE Len(s))

\* The spatial layer bitmasks of parse: Some of the activity lists of the
\* streams and the bytes after the bitmasks, or None.
SpatialLayerActives(b0, after_b0) ==
    LET simulcast_stream_count == ReadBits(b0, 2, 4) + 1
        shared_spatial_layer_bitmask == ReadBits(b0, 4, 8)
        actives_of(split) ==
            IF ~IsSome(split)
            THEN NoneOpt
            ELSE Some([actives |->
                          LET nibbles == Take(FlatMapIn2(Unwrap(split).left),
                                              simulcast_stream_count)
                          IN  [i \in 1..Len(nibbles) |->
                                  TruncatedBoolsFromLower4Bits(nibbles[i])],
                       rest |-> Unwrap(split).right])
    IN  IF shared_spatial_layer_bitmask > 0
        THEN Some([actives |->
                      [i \in 1..simulcast_stream_count |->
                          TruncatedBoolsFromLower4Bits(shared_spatial_layer_bitmask)],
                   rest |-> after_b0])
        ELSE actives_of(SplitAt(after_b0, DivRoundUp(simulcast_stream_count, 2)))

RECURSIVE SumSeq(_)
SumSeq(s) == IF s = <<>> THEN 0 ELSE Head(s) + SumSeq(Tail(s))

\* spatial_layer_actives.iter().flatten().filter(|&&active| active).count()
TotalActiveSpatialLayerCount(spatial_layer_actives) ==
    SumSeq([i \in 1..Len(spatial_layer_actives) |->
               Cardinality({k \in 1..Len(spatial_layer_actives[i]) :
                               spatial_layer_actives[i][k]})])

\* The temporal layer counts of parse: Some of the counts and the bytes
\* after them, or None.
TemporalLayerCounts(after_spatial_layer_bitmasks, total_active_spatial_layer_count) ==
    LET counts_of(split) ==
            IF ~IsSome(split)
            THEN NoneOpt
            ELSE Some([counts |->
                          LET all == FlatMapIn4(Unwrap(split).left)
                          IN  Take([i \in 1..Len(all) |-> all[i] + 1],
                                   total_active_spatial_layer_count),
                       rest |-> Unwrap(split).right])
    IN  counts_of(SplitAt(after_spatial_layer_bitmasks,
                          DivRoundUp(total_active_spatial_layer_count, 4)))

\* The temporal layer bitrates of parse: one parse_leb_u64 for each
\* temporal layer.
RECURSIVE TemporalLayerBitrates(_, _, _)
TemporalLayerBitrates(next_temporal_layer_bitrate, count, acc) ==
    IF count = 0
    THEN [bitrates |-> acc, rest |-> next_temporal_layer_bitrate]
    ELSE LET next(leb) ==
                 TemporalLayerBitrates(leb.rest, count - 1,
                                       Append(acc, ValueOf(leb.value)))
         IN  next(ParseLebU64(next_temporal_layer_bitrate))

\* The resolutions and framerates of parse: a 5 byte block for each active
\* spatial layer, as long as the bytes last.
RECURSIVE ResolutionsAndFramerates(_, _, _)
ResolutionsAndFramerates(next_resolution_and_framerate, count, acc) ==
    IF count = 0 \/ ~IsSome(SplitAt(next_resolution_and_framerate, 5))
    THEN acc
    ELSE LET next(split) ==
                 ResolutionsAndFramerates(
                     split.right, count - 1,
                     Append(acc,
                            [width |-> (split.left[1] * 256 + split.left[2] + 1) % 65536,
                             height |-> (split.left[3] * 256 + split.left[4] + 1) % 65536,
                             framerate |-> split.left[5]]))
         IN  next(Unwrap(SplitAt(next_resolution_and_framerate, 5)))

\* VecDeque::pop_front of the first element, if any
PopFront(q) == IF q = <<>> THEN NoneOpt ELSE Some(Head(q))
Popped(q) == IF q = <<>> THEN q ELSE Tail(q)

\* The temporal layers of one active spatial layer: pop_front of the
\* bitrates for each of temporal_layer_count layers.
TemporalLayersOf(temporal_layer_count, temporal_layer_bitrates) ==
    LET taken == Take(temporal_layer_bitrates, temporal_layer_count)
    IN  [t \in 1..Len(taken) |-> [cumulative_kbps |-> taken[t]]]

\* The spatial layers of one stream; q holds the three queues
\* temporal_layer_counts, temporal_layer_bitrates, resolutions_and_framerates.
RECURSIVE SpatialLayerAllocations(_, _, _, _)
SpatialLayerAllocations(spatial_layer_actives, k, q, acc) ==
    IF k > Len(spatial_layer_actives)
    THEN [spatial_layers |-> acc, q |-> q]
    ELSE IF ~spatial_layer_actives[k]
    THEN SpatialLayerAllocations(spatial_layer_actives, k + 1, q,
                        Append(acc, [temporal_layers |-> <<>>,
                                     resolution_and_framerate |-> NoneOpt]))
    ELSE IF ~IsSome(PopFront(q.counts))
    THEN SpatialLayerAllocations(spatial_layer_actives, k + 1, q, acc)
    ELSE SpatialLayerAllocations(
             spatial_layer_actives, k + 1,
             [counts |-> Popped(q.counts),
              bitrates |-> SubSeq(q.bitrates,
                                  Len(Take(q.bitrates, Head(q.counts))) + 1,
                                  Len(q.bitrates)),
              resolutions |-> Popped(q.resolutions)],
             Append(acc,
                    [temporal_layers |->
                         TemporalLayersOf(Head(q.counts), q.bitrates),
                     resolution_and_framerate |-> PopFront(q.resolutions)]))

\* The simulcast streams of parse
RECURSIVE SimulcastStreams(_, _, _, _)
SimulcastStreams(spatial_layer_actives, i, q, acc) ==
    IF i > Len(spatial_layer_actives)
    THEN acc
    ELSE LET next(r) ==
                 SimulcastStreams(spatial_layer_actives, i + 1, r.q,
                                  Append(acc, [spatial_layers |-> r.spatial_layers]))
         IN  next(SpatialLayerAllocations(spatial_layer_actives[i], 1, q, <<>>))

\* VideoLayersAllocation::parse from the temporal layer counts on
VlaParseLayers(current_simulcast_stream_index, spatial_layer_actives, counts) ==
    IF ~IsSome(counts)
    THEN NoneOpt
    ELSE LET queues(bitrates) ==
                 [counts |-> Unwrap(counts).counts,
                  bitrates |-> bitrates.bitrates,
                  resolutions |->
                      ResolutionsAndFramerates(
                          bitrates.rest,
                          TotalActiveSpatialLayerCount(spatial_layer_actives),
                          <<>>)]
         IN  Some([current_simulcast_stream_index |-> current_simulcast_stream_index,
                   simulcast_streams |->
                       SimulcastStreams(
                           spatial_layer_actives, 1,
                           queues(TemporalLayerBitrates(
                                      Unwrap(counts).rest,
                                      SumSeq(Unwrap(counts).counts), <<>>)),
                           <<>>)])

\* VideoLayersAllocation::parse from the spatial layer bitmasks on
VlaParseStreams(current_simulcast_stream_index, actives) ==
    IF ~IsSome(actives)
    THEN NoneOpt
    ELSE VlaParseLayers(
             current_simulcast_stream_index, Unwrap(actives).actives,
             TemporalLayerCounts(
                 Unwrap(actives).rest,
                 TotalActiveSpatialLayerCount(Unwrap(actives).actives)))

\* VideoLayersAllocation::parse
VideoLayersAllocationParse(b) ==
    IF b = <<>>
    THEN NoneOpt
    ELSE IF Head(b) = 0 /\ Tail(b) = <<>>
    THEN Some([current_simulcast_stream_index |-> 0, simulcast_streams |-> <<>>])
    ELSE VlaParseStreams(ReadBits(Head(b), 0, 2),
                         SpatialLayerActives(Head(b), Tail(b)))

\* Extension::parse_value, VideoLayersAllocation
ParseValueVideoLayersAllocation(b, vals) ==
    [vals EXCEPT !.video_layers_allocation = VideoLayersAllocationParse(b)]

\* ExtensionValues, the field of VideoLayersAllocation
NoVlaValues == [video_layers_allocation |-> NoneOpt]

(***************************************************************************)
(* The VideoLayersAllocation values handed to parse_value: a first byte    *)
(* and up to MaxVlaTail bytes of VlaBytes, and longer values with every    *)
(* temporal layer bitrate and with resolutions.                            *)
(***************************************************************************)

MaxVlaTail == 3

\* 0x01 (nibbles 0 1, counts 1 1 1 2), 0x54 (nibbles 5 4, counts 2 2 2 1),
\* 0x8D (nibbles 8 13, counts 3 1 4 2, a LEB128 byte with a successor)
VlaBytes == {1, 84, 141}

RECURSIVE VlaTails(_)
VlaTails(n) ==
    IF n = 0
    THEN {<<>>}
    ELSE VlaTails(n - 1)
         \cup {Append(t, b) : t \in {t \in VlaTails(n - 1) : Len(t) = n - 1},
                              b \in VlaBytes}

VlaFirstBytes ==
    {64 + count_minus_one * 16 + shared :
        count_minus_one \in 0..3, shared \in 0..15}
    \cup {count_minus_one * 16 + shared :
             count_minus_one \in 0..3, shared \in {0, 11}}

VlaLongValues ==
    { <<97, 84, 1, 2, 4, 8, 16, 32>>,
      <<11, 84, 100, 101, 110, 111, 120, 121>>,
      <<5, 0, 1, 2, 1, 63, 0, 239, 30, 2, 127, 1, 103, 15>>,
      <<5, 0, 1, 2, 1, 63, 0, 239, 30, 2, 127>>,
      <<16, 84, 64, 129, 1, 7, 0, 9, 0, 4, 60>>,
      <<1, 0, 100, 255, 255, 255, 255, 30>>,
      <<1, 0, 100, 255, 255, 0, 0, 30>>,
      <<48, 84, 141, 84, 141, 1, 2, 3, 4, 5, 6, 7, 8, 9, 10,
        11, 12, 13, 14, 15, 16, 17, 18, 19, 20>> }

VlaBuffers ==
    {<<>>}
    \cup {<<b0>> \o t : b0 \in VlaFirstBytes, t \in VlaTails(MaxVlaTail)}
    \cup VlaLongValues

InitVLA ==
    /\ vla_buf = <<>>
    /\ vla_values = NoVlaValues
    /\ vla_pc = "idle"

\* Extension::parse_value is handed the value of a VideoLayersAllocation
\* extension element.
ParseValueVla ==
    /\ vla_pc = "idle"
    /\ \E b \in VlaBuffers :
          /\ vla_buf' = b
          /\ vla_values' = ParseValueVideoLayersAllocation(b, NoVlaValues)
    /\ vla_pc' = "parsed"
    /\ UNCHANGED exceptVla

\* The next packet starts from fresh ExtensionValues.
NextVlaPacket ==
    /\ vla_pc = "parsed"
    /\ vla_buf' = <<>>
    /\ vla_values' = NoVlaValues
    /\ vla_pc' = "idle"
    /\ UNCHANGED exceptVla

NextVLA == ParseValueVla \/ NextVlaPacket

\* What the bytes of the value say, read without the parser.
VlaParsed == vla_pc = "parsed"

VlaResult == vla_values.video_layers_allocation

VlaSpecialCase == vla_buf = <<0>>

VlaWireCount == ((vla_buf[1] \div 16) % 4) + 1

VlaWireShared == vla_buf[1] % 16

VlaWireBitmaskBytes == IF VlaWireShared # 0 THEN 0 ELSE (VlaWireCount + 1) \div 2

VlaWireBitmask(i) ==
    IF VlaWireShared # 0
    THEN VlaWireShared
    ELSE IF i % 2 = 1
    THEN vla_buf[1 + ((i + 1) \div 2)] \div 16
    ELSE vla_buf[1 + ((i + 1) \div 2)] % 16

HighestBit(b) == Max({k \in 0..3 : BitOf(b, k) = 1})

VlaWireActivity(b) ==
    IF b = 0 THEN <<>> ELSE [k \in 1..(HighestBit(b) + 1) |-> BitOf(b, k - 1) = 1]

VlaWireActives ==
    Flatten([i \in 1..VlaWireCount |-> VlaWireActivity(VlaWireBitmask(i))])

VlaWireActiveCount ==
    Cardinality({n \in 1..Len(VlaWireActives) : VlaWireActives[n]})

VlaWireCountBytes == (VlaWireActiveCount + 3) \div 4

VlaHasBitmasks == Len(vla_buf) - 1 >= VlaWireBitmaskBytes

VlaHasCounts ==
    /\ VlaHasBitmasks
    /\ Len(vla_buf) - 1 - VlaWireBitmaskBytes >= VlaWireCountBytes

\* temporal_layer_count of the r-th active spatial layer, r from 1
VlaWireTemporalCount(r) ==
    ((vla_buf[2 + VlaWireBitmaskBytes + ((r - 1) \div 4)]
        \div Pow2(2 * (3 - ((r - 1) % 4)))) % 4) + 1

VlaWireTemporalTotal ==
    SumSeq([r \in 1..VlaWireActiveCount |-> VlaWireTemporalCount(r)])

\* The LEB128 values after the temporal layer counts and the bytes after
\* them.
VlaWireBitrates ==
    TemporalLayerBitrates(
        SubSeq(vla_buf, 2 + VlaWireBitmaskBytes + VlaWireCountBytes, Len(vla_buf)),
        VlaWireTemporalTotal, <<>>)

\* The r-th 5 byte block after the bitrates, r from 1, and the
\* ResolutionAndFramerate (u16, u16, u8) made of it.
VlaWireBlock(r) == SubSeq(VlaWireBitrates.rest, (5 * r) - 4, 5 * r)

VlaWireResolution(r) ==
    IF Len(VlaWireBitrates.rest) < 5 * r
    THEN NoneOpt
    ELSE Some([width |-> ((VlaWireBlock(r)[1] * 256) + VlaWireBlock(r)[2] + 1)
                         % 65536,
               height |-> ((VlaWireBlock(r)[3] * 256) + VlaWireBlock(r)[4] + 1)
                          % 65536,
               framerate |-> VlaWireBlock(r)[5]])

\* The streams of the parsed value, their spatial layers in stream order,
\* and the positions of the layers the bitmasks call active.
VlaStreams == Unwrap(VlaResult).simulcast_streams

VlaLayers == Flatten([i \in 1..Len(VlaStreams) |-> VlaStreams[i].spatial_layers])

VlaActivePositions ==
    SelectSeq([n \in 1..Len(VlaWireActives) |-> n], LAMBDA n : VlaWireActives[n])

VlaKbps ==
    Flatten([n \in 1..Len(VlaLayers) |->
                [t \in 1..Len(VlaLayers[n].temporal_layers) |->
                    VlaLayers[n].temporal_layers[t].cumulative_kbps]])

\* C11: outside the single zero byte, parse yields simulcast_stream_count
\* streams; a nonzero shared bitmask gives every stream the same activity
\* list and the counts start right after byte 0, otherwise stream i takes
\* the i-th nibble, high nibble first, of the next ceil(count/2) bytes; the
\* temporal layer counts and the cumulative kbps values go to the active
\* layers in stream, then spatial layer, then temporal layer order.
C11_StreamsFollowBitmasks ==
    (VlaParsed /\ vla_buf # <<>> /\ ~VlaSpecialCase /\ VlaHasCounts) =>
        /\ IsSome(VlaResult)
        /\ Len(VlaStreams) = VlaWireCount
        /\ \A i \in 1..VlaWireCount :
              [k \in 1..Len(VlaStreams[i].spatial_layers) |->
                  VlaStreams[i].spatial_layers[k].temporal_layers # <<>>]
              = VlaWireActivity(VlaWireBitmask(i))
        /\ Len(VlaLayers) = Len(VlaWireActives)
        /\ \A r \in 1..VlaWireActiveCount :
              Len(VlaLayers[VlaActivePositions[r]].temporal_layers)
              = VlaWireTemporalCount(r)
        /\ VlaKbps = VlaWireBitrates.bitrates

\* C11 witness: the three streams of one spatial layer and two temporal
\* layers each, with the cumulative kbps 1, 2, 4, 8, 16, 32.
C11_Witness ==
    /\ VlaParsed
    /\ vla_buf = <<97, 84, 1, 2, 4, 8, 16, 32>>
    /\ IsSome(VlaResult)
    /\ Len(VlaStreams) = 3
    /\ VlaKbps = <<1, 2, 4, 8, 16, 32>>
    /\ VlaStreams[2].spatial_layers[1].temporal_layers
         = <<[cumulative_kbps |-> 4], [cumulative_kbps |-> 8]>>

\* C12: a stream with bitmask b has no spatial layers when b = 0 and
\* otherwise 1 + (index of the highest set bit) layers; layer k is active
\* iff bit k is set; an inactive layer has no temporal layers and no
\* resolution, and the r-th active layer gets the r-th temporal layer
\* count and the r-th resolution block, so inactive layers consume none.
C12_TruncatedBitmask ==
    (VlaParsed /\ IsSome(VlaResult) /\ ~VlaSpecialCase) =>
        /\ \A i \in 1..Len(VlaStreams) :
              /\ Len(VlaStreams[i].spatial_layers)
                   = IF VlaWireBitmask(i) = 0 THEN 0
                     ELSE 1 + HighestBit(VlaWireBitmask(i))
              /\ \A k \in 1..Len(VlaStreams[i].spatial_layers) :
                    IF BitOf(VlaWireBitmask(i), k - 1) = 1
                    THEN VlaStreams[i].spatial_layers[k].temporal_layers # <<>>
                    ELSE VlaStreams[i].spatial_layers[k]
                         = [temporal_layers |-> <<>>,
                            resolution_and_framerate |-> NoneOpt]
        /\ Len(VlaLayers) = Len(VlaWireActives)
        /\ Len(VlaKbps) = VlaWireTemporalTotal
        /\ \A r \in 1..VlaWireActiveCount :
              VlaLayers[VlaActivePositions[r]].resolution_and_framerate
              = VlaWireResolution(r)

\* C12 witness: bitmask 0101, the middle layer inactive, and the second
\* resolution block given to the third layer.
C12_Witness ==
    /\ VlaParsed
    /\ vla_buf = <<5, 0, 1, 2, 1, 63, 0, 239, 30, 2, 127, 1, 103, 15>>
    /\ IsSome(VlaResult)
    /\ Len(VlaStreams[1].spatial_layers) = 3
    /\ VlaStreams[1].spatial_layers[2]
         = [temporal_layers |-> <<>>, resolution_and_framerate |-> NoneOpt]
    /\ VlaStreams[1].spatial_layers[3]
         = [temporal_layers |-> <<[cumulative_kbps |-> 2]>>,
            resolution_and_framerate |->
                Some([width |-> 640, height |-> 360, framerate |-> 15])]

\* C13: parse gives None for an empty buffer and for a buffer that ends
\* before the per-stream bitmask bytes or before the temporal layer count
\* bytes, and ExtensionValues.video_layers_allocation is then None.
C13_ShortBufferIsNone ==
    (VlaParsed /\ (vla_buf = <<>> \/ (~VlaSpecialCase /\ ~VlaHasCounts))) =>
        VlaResult = NoneOpt

\* C13 witness: two streams whose bitmask byte is there and whose
\* temporal layer count byte is not.
C13_Witness ==
    /\ VlaParsed
    /\ vla_buf = <<16, 84>>
    /\ VlaHasBitmasks
    /\ ~VlaHasCounts
    /\ VlaResult = NoneOpt

\* C26: every resolution block of a parsed value gives a
\* ResolutionAndFramerate with width = width_minus_1 + 1 and
\* height = height_minus_1 + 1, both in 1..65536, and the framerate of the
\* fifth byte of the block.
C26_ResolutionPlusOne ==
    (VlaParsed /\ IsSome(VlaResult) /\ ~VlaSpecialCase) =>
        \A r \in 1..VlaWireActiveCount :
            Len(VlaWireBitrates.rest) >= 5 * r =>
                LET block == VlaWireBlock(r)
                    layer == VlaLayers[VlaActivePositions[r]]
                    res == Unwrap(layer.resolution_and_framerate)
                IN  /\ IsSome(layer.resolution_and_framerate)
                    /\ res.width = (block[1] * 256) + block[2] + 1
                    /\ res.height = (block[3] * 256) + block[4] + 1
                    /\ res.width \in 1..65536
                    /\ res.height \in 1..65536
                    /\ res.framerate = block[5]

(***************************************************************************)
(* Stats (str0m/src/stats.rs)                                              *)
(*                                                                         *)
(* An Instant is a number of half seconds; the calls come in any order     *)
(* and with any Instant of Times.                                          *)
(***************************************************************************)

\* const TIMING_ADVANCE: Duration = Duration::from_secs(1), in half seconds
TIMING_ADVANCE == 2

MaxTime == 4

Times == 0..MaxTime

\* The (Mid, Option<Rid>) keys of the snapshots.
StatKeys == {"a", "b"}

\* The most events the queue holds in the model: those of a snapshot with
\* every key in ingress.
MaxQueue == 1 + Cardinality(StatKeys)

\* StatsSnapshot: the four peer counters follow from p and the counter of
\* a key from p and the key, so that every field and key has its own value.
StatsSnapshotOf(ts, p, ingress_keys, egress_keys) ==
    [peer_tx |-> p + 1, peer_rx |-> p + 2, tx |-> p + 3, rx |-> p + 4,
     ingress |-> [k \in ingress_keys |-> IF k = "a" THEN p + 5 ELSE p + 6],
     egress |-> [k \in egress_keys |-> IF k = "a" THEN p + 7 ELSE p + 8],
     ts |-> ts]

StatsSnapshots ==
    {StatsSnapshotOf(ts, p, ik, ek) :
        ts \in Times, p \in {0}, ik \in {{}, {"a"}, StatKeys}, ek \in {{}, {"a"}}}

\* The orders in which a HashMap with the keys S may be iterated.
IterationOrders(S) ==
    {order \in [1..Cardinality(S) -> S] :
        \A i, j \in 1..Cardinality(S) : i # j => order[i] # order[j]}

\* StatEvent
PeerStatsOf(snapshot) ==
    [kind |-> "PeerStats",
     peer_bytes_rx |-> snapshot.peer_rx, peer_bytes_tx |-> snapshot.peer_tx,
     bytes_rx |-> snapshot.rx, bytes_tx |-> snapshot.tx,
     ts |-> snapshot.ts]

MediaIngressStatsOf(snapshot, key) ==
    [kind |-> "MediaIngressStats", key |-> key,
     bytes_rx |-> snapshot.ingress[key], ts |-> snapshot.ts]

MediaEgressStatsOf(snapshot, key) ==
    [kind |-> "MediaEgressStats", key |-> key,
     bytes_tx |-> snapshot.egress[key], ts |-> snapshot.ts]

\* Stats::wants_timeout
WantsTimeoutOf(stats_last_now, now) == now >= stats_last_now + TIMING_ADVANCE

\* Stats::do_handle_timeout: self.last_now = snapshot.ts
LastNowAfter(stats_last_now, snapshot) == snapshot.ts

\* A do_handle_timeout that enqueues the egress events before the ingress
\* events.
EventsAfter_EgressFirst(queue, snapshot, ingress_order, egress_order) ==
    queue \o <<PeerStatsOf(snapshot)>>
          \o [i \in 1..Len(egress_order) |->
                 MediaEgressStatsOf(snapshot, egress_order[i])]
          \o [i \in 1..Len(ingress_order) |->
                 MediaIngressStatsOf(snapshot, ingress_order[i])]

\* Stats::do_handle_timeout: the events it pushes to the back of the queue
EventsAfter(queue, snapshot, ingress_order, egress_order) ==
    queue \o <<PeerStatsOf(snapshot)>>
          \o [i \in 1..Len(ingress_order) |->
                 MediaIngressStatsOf(snapshot, ingress_order[i])]
          \o [i \in 1..Len(egress_order) |->
                 MediaEgressStatsOf(snapshot, egress_order[i])]

\* A poll_timeout without the TIMING_ADVANCE.
PollTimeoutOf_NoAdvance(stats_last_now) == Some(stats_last_now)

\* Stats::poll_timeout
PollTimeoutOf(stats_last_now) == Some(stats_last_now + TIMING_ADVANCE)

\* Stats::new at the Instant t0, and what the model remembers of the calls:
\* the queue before the last call, the Instant poll_timeout returned last
\* and the ts of the snapshot handled last, both also as they were before
\* the last call, the Instant of creation, whether wants_timeout was
\* called, and whether every do_handle_timeout so far came right after a
\* wants_timeout(now) that returned true, with snapshot.ts = now.
InitStats ==
    \E t0 \in {0, 1} :
        /\ last_now = t0
        /\ events = <<>>
        /\ st_call = [op |-> "new", arg |-> t0, ret |-> NoneOpt]
        /\ st_hist = [before |-> <<>>,
                      deadline |-> NoneOpt, deadline_before |-> NoneOpt,
                      emission |-> NoneOpt, emission_before |-> NoneOpt,
                      created |-> t0, timeouts |-> 0, by_session |-> TRUE]

WantsTimeout ==
    \E now \in Times :
        /\ st_call' = [op |-> "wants_timeout", arg |-> now,
                       ret |-> WantsTimeoutOf(last_now, now)]
        /\ st_hist' = [st_hist EXCEPT !.before = events,
                                      !.deadline_before = st_hist.deadline,
                                      !.emission_before = st_hist.emission,
                                      !.timeouts = IF @ = 0 THEN 1 ELSE 2]
        /\ UNCHANGED <<last_now, events>>
        /\ UNCHANGED exceptStats

DoHandleTimeout ==
    \E snapshot \in StatsSnapshots :
        \E ingress_order \in IterationOrders(DOMAIN snapshot.ingress),
           egress_order \in IterationOrders(DOMAIN snapshot.egress) :
            /\ Len(events) + 1 + Len(ingress_order) + Len(egress_order) <= MaxQueue
            /\ events' = EventsAfter(events, snapshot, ingress_order, egress_order)
            /\ last_now' = LastNowAfter(last_now, snapshot)
            /\ st_call' = [op |-> "do_handle_timeout", arg |-> snapshot,
                           ret |-> NoneOpt]
            /\ st_hist' = [st_hist EXCEPT
                              !.before = events,
                              !.deadline_before = st_hist.deadline,
                              !.emission_before = st_hist.emission,
                              !.emission = Some(snapshot.ts),
                              !.by_session =
                                  /\ @
                                  /\ st_call.op = "wants_timeout"
                                  /\ st_call.ret
                                  /\ st_call.arg = snapshot.ts]
            /\ UNCHANGED exceptStats

PollTimeout ==
    /\ st_call' = [op |-> "poll_timeout", arg |-> NoneOpt,
                   ret |-> PollTimeoutOf(last_now)]
    /\ st_hist' = [st_hist EXCEPT
                      !.before = events,
                      !.deadline_before = st_hist.deadline,
                      !.emission_before = st_hist.emission,
                      !.deadline = PollTimeoutOf(last_now)]
    /\ UNCHANGED <<last_now, events>>
    /\ UNCHANGED exceptStats

\* Stats::poll_output: self.events.pop_front()
PollOutput ==
    /\ st_call' = [op |-> "poll_output", arg |-> NoneOpt, ret |-> PopFront(events)]
    /\ events' = Popped(events)
    /\ st_hist' = [st_hist EXCEPT !.before = events,
                                  !.deadline_before = st_hist.deadline,
                                  !.emission_before = st_hist.emission]
    /\ UNCHANGED last_now
    /\ UNCHANGED exceptStats

NextStats == WantsTimeout \/ DoHandleTimeout \/ PollTimeout \/ PollOutput

\* The Instant of the last handled snapshot, the creation time before any.
LastHandled ==
    IF IsSome(st_hist.emission) THEN Unwrap(st_hist.emission) ELSE st_hist.created

\* C14: whatever the calls and the snapshot timestamps, the
\* Instant poll_timeout returns never decreases from one call to the next.
C14_DeadlineMonotonic ==
    (st_call.op = "poll_timeout" /\ IsSome(st_hist.deadline_before)) =>
        Unwrap(st_call.ret) >= Unwrap(st_hist.deadline_before)

FirstTimeout ==
    /\ st_call.op = "wants_timeout"
    /\ st_hist.timeouts = 1
    /\ ~IsSome(st_hist.emission)
    /\ st_call.arg >= st_hist.created

\* C16: a Stats created at t0 returns true from wants_timeout
\* at the first timeout with now >= t0, whatever the delay.
C16_FirstTimeoutEmits == FirstTimeout => st_call.ret

\* The events a call added to the queue.
NewEvents == SubSeq(events, Len(st_hist.before) + 1, Len(events))

\* C17: do_handle_timeout(snapshot) puts behind the events already queued
\* one PeerStats, then one MediaIngressStats per key of snapshot.ingress,
\* then one MediaEgressStats per key of snapshot.egress, each with
\* ts = snapshot.ts and the snapshot's counter; poll_output returns the
\* front of the queue, None when it is empty.
C17_EventsInOrder ==
    /\ st_call.op = "do_handle_timeout" =>
          /\ SubSeq(events, 1, Len(st_hist.before)) = st_hist.before
          /\ Len(NewEvents) = 1 + Cardinality(DOMAIN st_call.arg.ingress)
                                + Cardinality(DOMAIN st_call.arg.egress)
          /\ NewEvents[1] = [kind |-> "PeerStats",
                             peer_bytes_rx |-> st_call.arg.peer_rx,
                             peer_bytes_tx |-> st_call.arg.peer_tx,
                             bytes_rx |-> st_call.arg.rx,
                             bytes_tx |-> st_call.arg.tx,
                             ts |-> st_call.arg.ts]
          /\ \A k \in DOMAIN st_call.arg.ingress :
                \E i \in 2..(1 + Cardinality(DOMAIN st_call.arg.ingress)) :
                    NewEvents[i] = [kind |-> "MediaIngressStats", key |-> k,
                                    bytes_rx |-> st_call.arg.ingress[k],
                                    ts |-> st_call.arg.ts]
          /\ \A k \in DOMAIN st_call.arg.egress :
                \E i \in (2 + Cardinality(DOMAIN st_call.arg.ingress))
                             ..Len(NewEvents) :
                    NewEvents[i] = [kind |-> "MediaEgressStats", key |-> k,
                                    bytes_tx |-> st_call.arg.egress[k],
                                    ts |-> st_call.arg.ts]
    /\ st_call.op = "poll_output" =>
          IF st_hist.before = <<>>
          THEN st_call.ret = NoneOpt /\ events = <<>>
          ELSE st_call.ret = Some(Head(st_hist.before))
               /\ events = Tail(st_hist.before)

\* C17 witness: the last event of one snapshot is polled while the
\* PeerStats of a later snapshot waits behind it.
C17_Witness ==
    /\ st_call.op = "poll_output"
    /\ IsSome(st_call.ret)
    /\ Unwrap(st_call.ret).kind = "MediaEgressStats"
    /\ events # <<>>
    /\ Head(events).kind = "PeerStats"
    /\ Head(events).ts # Unwrap(st_call.ret).ts

(***************************************************************************)
(* aes_128_cm_sha1_80::rtp_iv (crypto/srtp.rs)                             *)
(*                                                                         *)
(* ssrc and srtp_index are words: the sets of the positions of their 1     *)
(* bits.                                                                   *)
(***************************************************************************)

\* a ^ b on u8
BitXor8(a, b) ==
    LET xor(i) == (BitOf(a, i) + BitOf(b, i)) % 2
    IN  xor(0) + 2 * xor(1) + 4 * xor(2) + 8 * xor(3)
        + 16 * xor(4) + 32 * xor(5) + 64 * xor(6) + 128 * xor(7)

\* The byte of a word that holds its bits 8k .. 8k+7
ByteOfWord(word, k) == ValueOf({b - 8 * k : b \in word \cap ((8 * k)..(8 * k + 7))})

\* to_le_bytes of a word of n bytes
ToBeBytes_Le(word, n) == [i \in 1..n |-> ByteOfWord(word, i - 1)]

\* u32::to_be_bytes, u64::to_be_bytes of a word of n bytes
ToBeBytes(word, n) == [i \in 1..n |-> ByteOfWord(word, n - i)]

\* iv[4..8].copy_from_slice(&ssrc_be)
CopySsrc(iv, ssrc_be) ==
    [i \in 1..16 |-> IF i \in 5..8 THEN ssrc_be[i - 4] ELSE iv[i]]

\* for i in 0..8 { iv[i + 6] ^= srtp_be[i]; }
XorSrtpIndex(iv, srtp_be) ==
    [i \in 1..16 |-> IF i \in 7..14 THEN BitXor8(iv[i], srtp_be[i - 6]) ELSE iv[i]]

\* for i in 0..14 { iv[i] ^= salt[i]; }
XorSalt(iv, salt) ==
    [i \in 1..16 |-> IF i \in 1..14 THEN BitXor8(iv[i], salt[i]) ELSE iv[i]]

\* aes_128_cm_sha1_80::rtp_iv
RtpIv(salt, ssrc, srtp_index) ==
    XorSalt(XorSrtpIndex(CopySsrc([i \in 1..16 |-> 0], ToBeBytes(ssrc, 4)),
                         ToBeBytes(srtp_index, 8)),
            salt)

\* The 14 byte salts, the ssrcs and the SRTP indexes of the calls.  An
\* index is ROC << 16 | seq, and the last two have bits above the 48.
RtpSalts ==
    { [i \in 1..14 |-> 0], [i \in 1..14 |-> 255], [i \in 1..14 |-> i],
      [i \in 1..14 |-> (37 * i + 165) % 256] }

Ssrcs == { {}, 0..31, {1, 8, 18, 27}, {0, 7, 9, 14, 16, 23, 25, 30} }

Rocs == { {}, 0..31, {3, 12, 21, 30} }

Seqs == { {}, 0..15, {2, 5, 11} }

SrtpIndexes ==
    {Shl(roc, 16, 64) \cup seq : roc \in Rocs, seq \in Seqs}
    \cup { {48}, 0..63 }

InitIV ==
    iv_call = [salt |-> <<>>, ssrc |-> {}, srtp_index |-> {}, iv |-> <<>>]

\* A packet is protected or unprotected: rtp_iv is called with the salt of
\* the session, the ssrc of the packet and its SRTP index.
RtpIvCall ==
    /\ \E salt \in RtpSalts, ssrc \in Ssrcs, srtp_index \in SrtpIndexes :
          iv_call' = [salt |-> salt, ssrc |-> ssrc, srtp_index |-> srtp_index,
                      iv |-> RtpIv(salt, ssrc, srtp_index)]
    /\ UNCHANGED exceptIv

NextIV == RtpIvCall

\* The 112 bit word of a salt, byte 0 the most significant.
SaltWord(salt) ==
    {8 * (14 - i) + b : i \in 1..14, b \in 0..7} \cap
    {n \in 0..111 : BitOf(salt[14 - (n \div 8)], n % 8) = 1}

\* a XOR b on words
XorWord(a, b) == (a \ b) \cup (b \ a)

\* (salt * 2^16) XOR (ssrc * 2^64) XOR (index * 2^16), a 128 bit word
ExpectedIvWord ==
    XorWord(XorWord(Shl(SaltWord(iv_call.salt), 16, 128),
                    Shl(iv_call.ssrc, 64, 128)),
            Shl(iv_call.srtp_index, 16, 128))

RtpIvCalled == iv_call.iv # <<>>

\* C18: for every salt, ssrc and 48 bit SRTP index, rtp_iv returns the 16
\* bytes, big endian, of (salt * 2^16) XOR (ssrc * 2^64) XOR (index * 2^16):
\* bytes 14..16 are zero, bytes 0..4 the salt, bytes 4..8 salt XOR ssrc and
\* bytes 8..14 salt XOR the index.
C18_RtpIvLayout ==
    (RtpIvCalled /\ iv_call.srtp_index \subseteq 0..47) =>
        /\ Len(iv_call.iv) = 16
        /\ \A i \in 1..16 : iv_call.iv[i] = ByteOfWord(ExpectedIvWord, 16 - i)
        /\ iv_call.iv[15] = 0 /\ iv_call.iv[16] = 0
        /\ \A i \in 1..4 : iv_call.iv[i] = iv_call.salt[i]
        /\ \A i \in 5..8 :
              iv_call.iv[i]
              = ByteOfWord(XorWord(WordOf(iv_call.salt[i]),
                                   WordOf(ByteOfWord(iv_call.ssrc, 8 - i))), 0)
        /\ \A i \in 9..14 :
              iv_call.iv[i]
              = ByteOfWord(XorWord(WordOf(iv_call.salt[i]),
                                   WordOf(ByteOfWord(iv_call.srtp_index, 14 - i))), 0)

\* C18 witness: a salt, an ssrc and an index with ROC and seq both set,
\* none of them zero.
C18_Witness ==
    /\ RtpIvCalled
    /\ iv_call.salt = [i \in 1..14 |-> i]
    /\ iv_call.ssrc = {1, 8, 18, 27}
    /\ iv_call.srtp_index = {19, 28, 37, 46} \cup {2, 5, 11}
    /\ iv_call.iv = <<1, 2, 3, 4, 13, 2, 6, 10, 73, 42, 27, 4, 5, 42, 0, 0>>

(***************************************************************************)
(* transform_dtls_event (crypto/wincrypto/dtls.rs)                         *)
(***************************************************************************)

\* A srtp_profile_from_network_endian_id with the two profiles exchanged.
SrtpProfileFromNetworkEndianId_Swapped(srtp_profile_id) ==
    IF srtp_profile_id = 1 THEN "AeadAes128Gcm"
    ELSE IF srtp_profile_id = 7 THEN "Aes128CmSha1_80"
    ELSE "panic"

\* srtp_profile_from_network_endian_id; any other id panics
SrtpProfileFromNetworkEndianId(srtp_profile_id) ==
    IF srtp_profile_id = 1 THEN "Aes128CmSha1_80"
    ELSE IF srtp_profile_id = 7 THEN "AeadAes128Gcm"
    ELSE "panic"

\* create_sha256_fingerprint and KeyingMaterial::new, by what they are
\* given
CreateSha256Fingerprint(peer_fingerprint) ==
    [hash_func |-> "sha-256", of |-> peer_fingerprint]

KeyingMaterialNew(srtp_keying_material) == [material |-> srtp_keying_material]

\* The DtlsEvents of the Connected arm, in the order of the push_back
\* calls; the panic of an unknown profile id comes before the third.
ConnectedEvents(event) ==
    <<[kind |-> "Connected"],
      [kind |-> "RemoteFingerprint",
       fingerprint |-> CreateSha256Fingerprint(event.peer_fingerprint)]>>
    \o IF SrtpProfileFromNetworkEndianId(event.srtp_profile_id) = "panic"
       THEN <<>>
       ELSE <<[kind |-> "SrtpKeyingMaterial",
               keying_material |-> KeyingMaterialNew(event.srtp_keying_material),
               profile |-> SrtpProfileFromNetworkEndianId(event.srtp_profile_id)]>>

\* transform_dtls_event: the output_events after the call
TransformDtlsEvent(event, queue) ==
    IF event.kind \in {"None", "WouldBlock"} THEN queue
    ELSE IF event.kind = "Connected" THEN queue \o ConnectedEvents(event)
    ELSE Append(queue, [kind |-> "Data", vec |-> event.vec])

\* The most events output_events holds in the model.
MaxOutputEvents == 4

\* The profile ids the use_srtp extension negotiates.
SrtpProfileIds == {1, 7}

\* The events of the DTLS engine: the profile id of Connected is one that
\* was negotiated.
EngineEvents ==
    {[kind |-> "None"], [kind |-> "WouldBlock"]}
    \cup {[kind |-> "Data", vec |-> vec] : vec \in {<<1>>, <<2, 3>>}}
    \cup {[kind |-> "Connected", srtp_profile_id |-> id,
           srtp_keying_material |-> <<9, 8>>, peer_fingerprint |-> fp] :
             id \in SrtpProfileIds, fp \in {<<5>>, <<6, 7>>}}

\* No event was handed to transform_dtls_event by the last call.
NotTransformed == [kind |-> "NotTransformed"]

InitDtls ==
    /\ output_events = <<>>
    /\ dtls_call = [op |-> "new", event |-> NotTransformed, before |-> <<>>]

\* DtlsContextImpl::handle_receive hands the event the engine reports for
\* the datagram to transform_dtls_event.
HandleReceive ==
    /\ \E event \in EngineEvents :
          /\ Len(TransformDtlsEvent(event, output_events)) <= MaxOutputEvents
          /\ output_events' = TransformDtlsEvent(event, output_events)
          /\ dtls_call' = [op |-> "handle_receive", event |-> event,
                           before |-> output_events]
    /\ UNCHANGED exceptDtls

\* DtlsContextImpl::handle_handshake returns early when the engine is
\* connected or has no role yet, and else hands the event of the engine
\* to transform_dtls_event.
HandleHandshake ==
    /\ \E early \in BOOLEAN, event \in EngineEvents :
          IF early
          THEN /\ output_events' = output_events
               /\ dtls_call' = [op |-> "handle_handshake",
                                event |-> NotTransformed,
                                before |-> output_events]
          ELSE /\ Len(TransformDtlsEvent(event, output_events)) <= MaxOutputEvents
               /\ output_events' = TransformDtlsEvent(event, output_events)
               /\ dtls_call' = [op |-> "handle_handshake", event |-> event,
                                before |-> output_events]
    /\ UNCHANGED exceptDtls

\* The events are polled off the front of the queue.
PopDtlsEvent ==
    /\ output_events # <<>>
    /\ output_events' = Tail(output_events)
    /\ dtls_call' = [op |-> "pop_front", event |-> NotTransformed,
                     before |-> Tail(output_events)]
    /\ UNCHANGED exceptDtls

NextDtls == HandleReceive \/ HandleHandshake \/ PopDtlsEvent

MediaTimeNew(numer, denom) == [numer |-> numer, denom |-> denom]

Rebase(t, denom) ==
    IF t.denom = denom THEN t
    ELSE MediaTimeNew((t.numer * denom) \div t.denom, denom)

\* ExtensionValues, the two fields of PlayoutDelay
NoPdValues == [play_delay_min |-> NoneOpt, play_delay_max |-> NoneOpt]

\* Extension::write_to, PlayoutDelay:
\*   min = (v1.numer() & 0xfff) as u32, max = (v2.numer() & 0xfff) as u32
\*   buf[0] = (min >> 4) as u8
\*   buf[1] = (min << 4) as u8 | (max >> 8) as u8
\*   buf[2] = max as u8
WriteToPlayoutDelay(b, e) ==
    IF ~IsSome(e.play_delay_min) \/ ~IsSome(e.play_delay_max)
    THEN [buf |-> b, written |-> NoneOpt]
    ELSE LET min == Rebase(Unwrap(e.play_delay_min), 100).numer % 4096
             max == Rebase(Unwrap(e.play_delay_max), 100).numer % 4096
         IN  [buf |-> [b EXCEPT ![1] = (min \div 16) % 256,
                                ![2] = BitOr8((min * 16) % 256, (max \div 256) % 256),
                                ![3] = max % 256],
              written |-> Some(3)]

\* A parse_value that does not mask buf[1] for max.
ParseValuePlayoutDelay_NoMask(b, vals) ==
    IF Len(b) < 3
    THEN vals
    ELSE [vals EXCEPT
             !.play_delay_min = Some(MediaTimeNew(b[1] * 16 + (b[2] \div 16), 100)),
             !.play_delay_max = Some(MediaTimeNew(b[2] * 256 + b[3], 100))]

\* Extension::parse_value, PlayoutDelay:
\*   min = (buf[0] as u32) << 4 | (buf[1] as u32) >> 4
\*   max = ((buf[1] & 0xf) as u32) << 8 | buf[2] as u32
\* The two sides of each | have no bit in common, so it is a sum.
ParseValuePlayoutDelay(b, vals) ==
    IF Len(b) < 3
    THEN vals
    ELSE [vals EXCEPT
             !.play_delay_min = Some(MediaTimeNew(b[1] * 16 + (b[2] \div 16), 100)),
             !.play_delay_max =
                 Some(MediaTimeNew(BitAnd8(b[2], 15) * 256 + b[3], 100))]

\* FIXED_POINT_6_18, 2 ^ 18
FIXED_POINT_6_18 == 262144

\* Every Extension.
AllExtensions ==
    {"AbsoluteSendTime", "AudioLevel", "TransmissionTimeOffset",
     "VideoOrientation", "TransportSequenceNumber", "PlayoutDelay",
     "VideoContentType", "VideoTiming", "RtpStreamId", "RepairedRtpStreamId",
     "RtpMid", "FrameMarking", "ColorSpace", "VideoLayersAllocation",
     "UnknownUri"}

\* ExtensionValues::default
NoExtValues ==
    [audio_level |-> NoneOpt, voice_activity |-> NoneOpt,
     video_orientation |-> NoneOpt, video_content_type |-> NoneOpt,
     tx_time_offs |-> NoneOpt, abs_send_time |-> NoneOpt,
     transport_cc |-> NoneOpt, play_delay_min |-> NoneOpt,
     play_delay_max |-> NoneOpt, video_timing |-> NoneOpt, rid |-> NoneOpt,
     rid_repair |-> NoneOpt, mid |-> NoneOpt, frame_mark |-> NoneOpt,
     video_layers_allocation |-> NoneOpt]

\* `v as u8` of a VideoOrientation and VideoOrientation::from(u8)
VideoOrientationAsU8(v) ==
    CASE v = "Deg0" -> 0 [] v = "Deg90" -> 3 [] v = "Deg180" -> 2
      [] v = "Deg270" -> 1

VideoOrientationFrom(value) ==
    CASE value = 1 -> "Deg270" [] value = 2 -> "Deg180" [] value = 3 -> "Deg90"
      [] OTHER -> "Deg0"

\* u16::to_be_bytes and u16::from_be_bytes
U16ToBeBytes(v) == <<(v \div 256) % 256, v % 256>>
U16FromBeBytes(b) == b[1] * 256 + b[2]

\* Rid::as_bytes, Mid::as_bytes, and Rid / Mid from a &str: the bytes of
\* the id
AsBytes(v) == v
IdFromStr(s) == s

\* std::str::from_utf8(buf).is_ok()
RECURSIVE IsUtf8(_)
IsUtf8(b) ==
    LET cont(i) == i <= Len(b) /\ b[i] \in 128..191
    IN  IF b = <<>> THEN TRUE
        ELSE IF b[1] < 128 THEN IsUtf8(Tail(b))
        ELSE IF b[1] \in 194..223
        THEN cont(2) /\ IsUtf8(SubSeq(b, 3, Len(b)))
        ELSE IF b[1] \in 224..239
        THEN /\ cont(2) /\ cont(3)
             /\ (b[1] = 224 => b[2] >= 160)
             /\ (b[1] = 237 => b[2] <= 159)
             /\ IsUtf8(SubSeq(b, 4, Len(b)))
        ELSE IF b[1] \in 240..244
        THEN /\ cont(2) /\ cont(3) /\ cont(4)
             /\ (b[1] = 240 => b[2] >= 144)
             /\ (b[1] = 244 => b[2] <= 143)
             /\ IsUtf8(SubSeq(b, 5, Len(b)))
        ELSE FALSE

\* The bytes Extension::write_to writes for a kind that has a value in the
\* ExtensionValues (every `?` comes before the first write), or None.
ValueBytes(ext, e) ==
    CASE ext = "AbsoluteSendTime" ->
           IF ~IsSome(e.abs_send_time) THEN NoneOpt
           ELSE LET time_24 == Rebase(Unwrap(e.abs_send_time), FIXED_POINT_6_18).numer
                IN  Some(<<(time_24 \div 65536) % 256, (time_24 \div 256) % 256,
                           time_24 % 256>>)
      [] ext = "AudioLevel" ->
           IF IsSome(WriteToAudioLevel(<<0>>, e).written)
           THEN Some(WriteToAudioLevel(<<0>>, e).buf) ELSE NoneOpt
      [] ext = "TransmissionTimeOffset" ->
           IF ~IsSome(e.tx_time_offs) THEN NoneOpt
           ELSE Some(ToBeBytes(Unwrap(e.tx_time_offs), 4))
      [] ext = "VideoOrientation" ->
           IF ~IsSome(e.video_orientation) THEN NoneOpt
           ELSE Some(<<VideoOrientationAsU8(Unwrap(e.video_orientation))>>)
      [] ext = "TransportSequenceNumber" ->
           IF ~IsSome(e.transport_cc) THEN NoneOpt
           ELSE Some(U16ToBeBytes(Unwrap(e.transport_cc)))
      [] ext = "PlayoutDelay" ->
           IF IsSome(WriteToPlayoutDelay(<<0, 0, 0>>, e).written)
           THEN Some(WriteToPlayoutDelay(<<0, 0, 0>>, e).buf) ELSE NoneOpt
      [] ext = "VideoContentType" ->
           IF ~IsSome(e.video_content_type) THEN NoneOpt
           ELSE Some(<<Unwrap(e.video_content_type)>>)
      [] ext = "VideoTiming" ->
           IF ~IsSome(e.video_timing) THEN NoneOpt
           ELSE LET v == Unwrap(e.video_timing)
                IN  Some(<<v.flags>> \o U16ToBeBytes(v.encode_start)
                         \o U16ToBeBytes(v.encode_finish)
                         \o U16ToBeBytes(v.packetize_complete)
                         \o U16ToBeBytes(v.last_left_pacer)
                         \o U16ToBeBytes(0) \o U16ToBeBytes(0))
      [] ext = "RtpStreamId" ->
           IF ~IsSome(e.rid) THEN NoneOpt ELSE Some(AsBytes(Unwrap(e.rid)))
      [] ext = "RepairedRtpStreamId" ->
           IF ~IsSome(e.rid_repair) THEN NoneOpt
           ELSE Some(AsBytes(Unwrap(e.rid_repair)))
      [] ext = "RtpMid" ->
           IF ~IsSome(e.mid) THEN NoneOpt ELSE Some(AsBytes(Unwrap(e.mid)))
      [] ext = "FrameMarking" ->
           IF ~IsSome(e.frame_mark) THEN NoneOpt
           ELSE Some(ToBeBytes(Unwrap(e.frame_mark), 4))
      [] OTHER -> NoneOpt

\* What a write_to leaves: the buffer, the Option<usize> it returned, and
\* whether it panicked instead of returning.
Returned(b, n) == [buf |-> b, written |-> n, panic |-> FALSE]
Panicked(b) == [buf |-> b, written |-> NoneOpt, panic |-> TRUE]

\* An Extension::write_to in which ColorSpace and UnknownUri return None.
ExtWriteTo_TodoIsNone(ext, b, e) ==
    IF ~IsSome(ValueBytes(ext, e)) THEN Returned(b, NoneOpt)
    ELSE IF Len(b) < Len(Unwrap(ValueBytes(ext, e))) THEN Panicked(b)
    ELSE Returned(Unwrap(ValueBytes(ext, e))
                    \o SubSeq(b, Len(Unwrap(ValueBytes(ext, e))) + 1, Len(b)),
                  Some(Len(Unwrap(ValueBytes(ext, e)))))

\* Extension::write_to: ColorSpace and UnknownUri are todo!(), which
\* panics; VideoLayersAllocation returns None; a value that does not fit
\* the buffer panics at the slice.
ExtWriteTo(ext, b, e) ==
    IF ext \in {"ColorSpace", "UnknownUri"} THEN Panicked(b)
    ELSE IF ~IsSome(ValueBytes(ext, e)) THEN Returned(b, NoneOpt)
    ELSE IF Len(b) < Len(Unwrap(ValueBytes(ext, e))) THEN Panicked(b)
    ELSE Returned(Unwrap(ValueBytes(ext, e))
                    \o SubSeq(b, Len(Unwrap(ValueBytes(ext, e))) + 1, Len(b)),
                  Some(Len(Unwrap(ValueBytes(ext, e)))))

\* Extension::parse_value: the ExtensionValues after it; a value that is
\* too short, or not UTF-8 for an id, leaves them as they are.
ExtParseValue(ext, b, vals) ==
    CASE ext = "AbsoluteSendTime" ->
           IF Len(b) < 3 THEN vals
           ELSE [vals EXCEPT !.abs_send_time =
                    Some(MediaTimeNew(b[1] * 65536 + b[2] * 256 + b[3],
                                      FIXED_POINT_6_18))]
      [] ext = "AudioLevel" -> ParseValueAudioLevel(b, vals)
      [] ext = "TransmissionTimeOffset" ->
           IF Len(b) < 4 THEN vals
           ELSE [vals EXCEPT !.tx_time_offs = Some(U32FromBytes(SubSeq(b, 1, 4), {}))]
      [] ext = "VideoOrientation" ->
           IF b = <<>> THEN vals
           ELSE [vals EXCEPT !.video_orientation =
                    Some(VideoOrientationFrom(BitAnd8(b[1], 3)))]
      [] ext = "TransportSequenceNumber" ->
           IF Len(b) < 2 THEN vals
           ELSE [vals EXCEPT !.transport_cc = Some(U16FromBeBytes(b))]
      [] ext = "PlayoutDelay" -> ParseValuePlayoutDelay(b, vals)
      [] ext = "VideoContentType" ->
           IF b = <<>> THEN vals
           ELSE [vals EXCEPT !.video_content_type = Some(b[1])]
      [] ext = "VideoTiming" ->
           IF Len(b) < 9 THEN vals
           ELSE [vals EXCEPT !.video_timing =
                    Some([flags |-> b[1],
                          encode_start |-> U16FromBeBytes(SubSeq(b, 2, 3)),
                          encode_finish |-> U16FromBeBytes(SubSeq(b, 4, 5)),
                          packetize_complete |-> U16FromBeBytes(SubSeq(b, 6, 7)),
                          last_left_pacer |-> U16FromBeBytes(SubSeq(b, 8, 9))])]
      [] ext = "RtpStreamId" ->
           IF IsUtf8(b) THEN [vals EXCEPT !.rid = Some(IdFromStr(b))] ELSE vals
      [] ext = "RepairedRtpStreamId" ->
           IF IsUtf8(b) THEN [vals EXCEPT !.rid_repair = Some(IdFromStr(b))]
           ELSE vals
      [] ext = "RtpMid" ->
           IF IsUtf8(b) THEN [vals EXCEPT !.mid = Some(IdFromStr(b))] ELSE vals
      [] ext = "FrameMarking" ->
           IF Len(b) < 4 THEN vals
           ELSE [vals EXCEPT !.frame_mark = Some(U32FromBytes(SubSeq(b, 1, 4), {}))]
      [] ext = "VideoLayersAllocation" -> ParseValueVideoLayersAllocation(b, vals)
      [] OTHER -> vals

\* ExtensionMap::write_to: for every mapped id, in order, the value at
\* b[1..] and the one byte header (id << 4 | n - 1) at b[0]; pos is
\* orig_len - b.len(). b[1..] of an empty b panics, and so do the two
\* assertions on n.
RECURSIVE ExtensionMapWriteToLoop(_, _, _, _, _)
ExtensionMapWriteToLoop(m, id, ext_buf, pos, e) ==
    IF id > NumIds THEN [buf |-> ext_buf, n |-> pos, panic |-> FALSE]
    ELSE IF m[id] = NoEntry THEN ExtensionMapWriteToLoop(m, id + 1, ext_buf, pos, e)
    ELSE IF pos >= Len(ext_buf) THEN [buf |-> ext_buf, n |-> pos, panic |-> TRUE]
    ELSE LET w == ExtWriteTo(m[id].ext, SubSeq(ext_buf, pos + 2, Len(ext_buf)), e)
             filled == SubSeq(ext_buf, 1, pos + 1) \o w.buf
         IN  IF w.panic THEN [buf |-> filled, n |-> pos, panic |-> TRUE]
             ELSE IF ~IsSome(w.written)
             THEN ExtensionMapWriteToLoop(m, id + 1, ext_buf, pos, e)
             ELSE IF Unwrap(w.written) > 16 \/ Unwrap(w.written) = 0
             THEN [buf |-> filled, n |-> pos, panic |-> TRUE]
             ELSE ExtensionMapWriteToLoop(m, id + 1,
                      SubSeq(ext_buf, 1, pos)
                        \o <<BitOr8((id * 16) % 256, Unwrap(w.written) - 1)>>
                        \o w.buf,
                      pos + 1 + Unwrap(w.written), e)

ExtensionMapWriteTo(m, ext_buf, e) == ExtensionMapWriteToLoop(m, 1, ext_buf, 0, e)

\* A parse that treats an element with id 15 as any other element.
RECURSIVE ExtensionMapParse_NoStop(_, _, _, _)
ExtensionMapParse_NoStop(m, b, two_byte_header, ext_vals) ==
    IF b = <<>> THEN ext_vals
    ELSE IF b[1] = 0 THEN ExtensionMapParse_NoStop(m, Tail(b), two_byte_header, ext_vals)
    ELSE IF two_byte_header /\ Len(b) < 2 THEN ext_vals
    ELSE LET id == IF two_byte_header THEN b[1] ELSE b[1] \div 16
             len == IF two_byte_header THEN b[2] ELSE (b[1] % 16) + 1
             rest == IF two_byte_header THEN Tail(Tail(b)) ELSE Tail(b)
         IN  IF Len(rest) < len THEN ext_vals
             ELSE ExtensionMapParse_NoStop(m, SubSeq(rest, len + 1, Len(rest)),
                      two_byte_header,
                      IF Lookup(m, id) = None THEN ext_vals
                      ELSE ExtParseValue(Lookup(m, id), SubSeq(rest, 1, len),
                                         ext_vals))

\* ExtensionMap::parse: padding is skipped, id 15 of a one byte header ends
\* the parse, an element longer than the rest ends it, and the value of a
\* mapped id is parsed into the ExtensionValues.
RECURSIVE ExtensionMapParse(_, _, _, _)
ExtensionMapParse(m, b, two_byte_header, ext_vals) ==
    IF b = <<>> THEN ext_vals
    ELSE IF b[1] = 0 THEN ExtensionMapParse(m, Tail(b), two_byte_header, ext_vals)
    ELSE IF two_byte_header /\ Len(b) < 2 THEN ext_vals
    ELSE IF ~two_byte_header /\ b[1] \div 16 = 15 THEN ext_vals
    ELSE LET id == IF two_byte_header THEN b[1] ELSE b[1] \div 16
             len == IF two_byte_header THEN b[2] ELSE (b[1] % 16) + 1
             rest == IF two_byte_header THEN Tail(Tail(b)) ELSE Tail(b)
         IN  IF Len(rest) < len THEN ext_vals
             ELSE ExtensionMapParse(m, SubSeq(rest, len + 1, Len(rest)),
                      two_byte_header,
                      IF Lookup(m, id) = None THEN ext_vals
                      ELSE ExtParseValue(Lookup(m, id), SubSeq(rest, 1, len),
                                         ext_vals))

\* The delays of the ExtensionValues, in units of 10 ms; the last two do
\* not fit 12 bits.
PlayoutDelays == {0, 1, 15, 16, 100, 200, 255, 256, 2730, 4095, 4096, 5000}

\* The ids PlayoutDelay is mapped to.
PlayoutDelayIds == {1, 2, 14}

\* The buffer of the extensions of a packet, zeroed.
PdExtBuf == [i \in 1..8 |-> 0]

InitPD ==
    /\ pd_exts = Empty
    /\ pd_ev = NoPdValues
    /\ pd_buf = PdExtBuf
    /\ pd_written = 0
    /\ pd_values = NoPdValues
    /\ pd_pc = "set"

\* The session maps PlayoutDelay to an id.
SetPd ==
    /\ pd_pc = "set"
    /\ \E id \in PlayoutDelayIds : pd_exts' = SetOp(Empty, id, "PlayoutDelay")
    /\ pd_pc' = "write"
    /\ UNCHANGED <<pd_ev, pd_buf, pd_written, pd_values>>
    /\ UNCHANGED exceptPd

\* The sender serialises the extensions of some ExtensionValues.
WriteToPd ==
    /\ pd_pc = "write"
    /\ \E min \in {NoneOpt} \cup {Some(MediaTimeNew(d, 100)) : d \in PlayoutDelays},
          max \in {NoneOpt} \cup {Some(MediaTimeNew(d, 100)) : d \in PlayoutDelays} :
          LET e == [play_delay_min |-> min, play_delay_max |-> max]
              w == ExtensionMapWriteTo(pd_exts, PdExtBuf, e)
          IN  /\ pd_ev' = e
              /\ pd_buf' = w.buf
              /\ pd_written' = w.n
    /\ pd_values' = NoPdValues
    /\ pd_pc' = "parse"
    /\ UNCHANGED pd_exts
    /\ UNCHANGED exceptPd

\* The receiver parses the extensions that were written, one byte headers.
ParsePd ==
    /\ pd_pc = "parse"
    /\ pd_values' = ExtensionMapParse(pd_exts, pd_buf, FALSE, NoPdValues)
    /\ pd_pc' = "done"
    /\ UNCHANGED <<pd_exts, pd_ev, pd_buf, pd_written>>
    /\ UNCHANGED exceptPd

\* The next packet.
NextPdPacket ==
    /\ pd_pc = "done"
    /\ pd_pc' = "write"
    /\ UNCHANGED <<pd_exts, pd_ev, pd_buf, pd_written, pd_values>>
    /\ UNCHANGED exceptPd

NextPD == SetPd \/ WriteToPd \/ ParsePd \/ NextPdPacket

\* Both delays are set and fit 12 bits.
PdInRange ==
    /\ IsSome(pd_ev.play_delay_min) /\ IsSome(pd_ev.play_delay_max)
    /\ Unwrap(pd_ev.play_delay_min).numer \in 0..4095
    /\ Unwrap(pd_ev.play_delay_max).numer \in 0..4095

\* C20: for play_delay_min and play_delay_max in 0..=4095 units of 10 ms,
\* write_to emits an element of 3 bytes with min in the high 12 bits and
\* max in the low 12 bits, and ExtensionMap::parse of what was written
\* returns the same min and max.
C20_PlayoutDelayRoundTrip ==
    (pd_pc = "done" /\ PdInRange) =>
        /\ pd_written = 4
        /\ pd_buf[1] % 16 = 2
        /\ pd_buf[2] * 16 + (pd_buf[3] \div 16)
             = Unwrap(pd_ev.play_delay_min).numer
        /\ (pd_buf[3] % 16) * 256 + pd_buf[4]
             = Unwrap(pd_ev.play_delay_max).numer
        /\ pd_values = pd_ev

\* C20 witness: min 100 and max 200 at id 2 written as 0x06 0x40 0xC8
\* behind the header and parsed back.
C20_Witness ==
    /\ pd_pc = "done"
    /\ pd_ev = [play_delay_min |-> Some(MediaTimeNew(100, 100)),
                play_delay_max |-> Some(MediaTimeNew(200, 100))]
    /\ pd_buf = <<34, 6, 64, 200, 0, 0, 0, 0>>
    /\ pd_values = pd_ev

(***************************************************************************)
(* ExtensionMap::write_to, every kind (ext.rs)                             *)
(***************************************************************************)

\* The ids the kinds are set at.
WtIds == {1, 14}

\* The length of the buffer handed to write_to: two elements of 17 bytes
\* fit.
WtBufLen == 36

WtBuf == [i \in 1..WtBufLen |-> 0]

\* The ExtensionValues handed to write_to: none set, all set (twice), and
\* some set. A Rid or Mid is 1 to 16 bytes.
WtAllSet ==
    [audio_level |-> Some(-30), voice_activity |-> Some(TRUE),
     video_orientation |-> Some("Deg90"), video_content_type |-> Some(1),
     tx_time_offs |-> Some({0, 9, 18, 27}),
     abs_send_time |-> Some(MediaTimeNew(1193046, FIXED_POINT_6_18)),
     transport_cc |-> Some(513),
     play_delay_min |-> Some(MediaTimeNew(100, 100)),
     play_delay_max |-> Some(MediaTimeNew(200, 100)),
     video_timing |-> Some([flags |-> 1, encode_start |-> 258,
                            encode_finish |-> 772, packetize_complete |-> 1286,
                            last_left_pacer |-> 65535]),
     rid |-> Some(<<104>>), rid_repair |-> Some(<<108, 111>>),
     mid |-> Some([i \in 1..16 |-> 96 + i]),
     frame_mark |-> Some(0..31),
     video_layers_allocation |-> NoneOpt]

WtValues ==
    { NoExtValues,
      WtAllSet,
      [WtAllSet EXCEPT !.audio_level = Some(-128), !.voice_activity = Some(FALSE),
                       !.video_orientation = Some("Deg0"),
                       !.transport_cc = Some(0),
                       !.rid = Some([i \in 1..16 |-> 64 + i]),
                       !.rid_repair = Some([i \in 1..16 |-> 47 + i]),
                       !.mid = Some(<<48>>)],
      [WtAllSet EXCEPT !.voice_activity = NoneOpt, !.play_delay_max = NoneOpt,
                       !.mid = NoneOpt, !.frame_mark = NoneOpt,
                       !.video_timing = NoneOpt] }

NoWriteTo == [op |-> "new", ev |-> NoExtValues, buf |-> <<>>, n |-> 0, panic |-> FALSE]

InitWT ==
    /\ wt_exts = Empty
    /\ wt_call = NoWriteTo

\* ExtensionMap::set on the map of the sender.
WtSet ==
    /\ \E id \in WtIds, ext \in AllExtensions : wt_exts' = SetOp(wt_exts, id, ext)
    /\ wt_call' = NoWriteTo
    /\ UNCHANGED exceptWt

\* ExtensionMap::write_to into a zeroed buffer.
WtWriteTo ==
    /\ \E e \in WtValues :
          LET w == ExtensionMapWriteTo(wt_exts, WtBuf, e)
          IN  wt_call' = [op |-> "write_to", ev |-> e, buf |-> w.buf, n |-> w.n,
                          panic |-> w.panic]
    /\ UNCHANGED wt_exts
    /\ UNCHANGED exceptWt

NextWT == WtSet \/ WtWriteTo

\* What the write_to of the kind at id returned for the last call, into a
\* buffer that is large enough.
WtWritten(id) == ExtWriteTo(wt_exts[id].ext, WtBuf, wt_call.ev)

\* The ids whose element was written, and the bytes in front of the
\* element of id.
WtWrittenIds ==
    {id \in Ids : wt_exts[id] # NoEntry /\ IsSome(WtWritten(id).written)}

RECURSIVE WtOffset(_)
WtOffset(id) ==
    IF id <= 1 THEN 0
    ELSE WtOffset(id - 1)
         + IF (id - 1) \in WtWrittenIds
           THEN 1 + Unwrap(WtWritten(id - 1).written) ELSE 0

\* C22: for every ExtensionMap and every ExtensionValues, write_to into a
\* buffer that is large enough completes without a failed assertion or
\* panic: each mapped kind's write_to returns None or Some(n) with
\* 1 <= n <= 16, each written element has the header (id << 4) | (n - 1),
\* and the total returned is the sum of 1 + n over the elements written.
C22_WriteToCompletes ==
    wt_call.op = "write_to" =>
        /\ ~wt_call.panic
        /\ \A id \in Ids :
              wt_exts[id] # NoEntry =>
                  /\ ~WtWritten(id).panic
                  /\ IsSome(WtWritten(id).written) =>
                        Unwrap(WtWritten(id).written) \in 1..16
        /\ \A id \in WtWrittenIds :
              wt_call.buf[WtOffset(id) + 1]
                = id * 16 + Unwrap(WtWritten(id).written) - 1
        /\ wt_call.n = WtOffset(NumIds + 1)

(***************************************************************************)
(* ExtensionMap::parse on any bytes (ext.rs)                               *)
(***************************************************************************)

\* The ids and kinds of the map of the receiver.
PsIds == {1, 3}
PsExtensions == {"TransportSequenceNumber", "RtpMid"}

\* The pieces the bytes handed to parse are made of: padding, elements
\* with a one byte header (mapped, too short for the kind, not UTF-8,
\* unmapped, id 15, longer than the rest), elements with a two byte header
\* (mapped, unmapped, of length 0, longer than the rest) and a lone byte.
PsChunks ==
    { <<>>, <<0>>, <<17, 2, 1>>, <<16, 7>>, <<48, 97>>, <<49, 97, 200>>,
      <<33, 5, 200>>, <<240, 48, 97>>, <<31, 1>>,
      <<1, 2, 2, 1>>, <<3, 1, 97>>, <<2, 1, 5>>, <<1, 0>>, <<3, 9, 97>>, <<1>> }

PsBuffers == {a \o b \o c : a \in PsChunks, b \in PsChunks, c \in PsChunks}

NoParse == [buf |-> <<>>, two_byte_header |-> FALSE, values |-> NoExtValues]

InitPS ==
    /\ ps_exts = Empty
    /\ ps_call = NoParse
    /\ ps_pc = "idle"

\* ExtensionMap::set on the map of the receiver.
PsSet ==
    /\ ps_pc = "idle"
    /\ \E id \in PsIds, ext \in PsExtensions : ps_exts' = SetOp(ps_exts, id, ext)
    /\ UNCHANGED <<ps_call, ps_pc>>
    /\ UNCHANGED exceptPs

\* ExtensionMap::parse of the extension bytes of a packet into
\* ExtensionValues::default().
PsParse ==
    /\ ps_pc = "idle"
    /\ \E b \in PsBuffers, two_byte_header \in BOOLEAN :
          ps_call' = [buf |-> b, two_byte_header |-> two_byte_header,
                      values |-> ExtensionMapParse(ps_exts, b, two_byte_header,
                                                   NoExtValues)]
    /\ ps_pc' = "parsed"
    /\ UNCHANGED ps_exts
    /\ UNCHANGED exceptPs

\* The next packet.
PsNextPacket ==
    /\ ps_pc = "parsed"
    /\ ps_call' = NoParse
    /\ ps_pc' = "idle"
    /\ UNCHANGED ps_exts
    /\ UNCHANGED exceptPs

NextPS == PsSet \/ PsParse \/ PsNextPacket

\* The parse of the last call, from some byte of its buffer on, with the
\* values decoded so far.
PsParseFrom(s, vals) ==
    ExtensionMapParse(ps_exts, s, ps_call.two_byte_header, vals)

\* The places of the buffer a parse can stand at, and values decoded from
\* earlier elements.
PsSuffixes == {SubSeq(ps_call.buf, i, Len(ps_call.buf)) : i \in 1..(Len(ps_call.buf) + 1)}

PsEarlier ==
    {NoExtValues, ps_call.values,
     [NoExtValues EXCEPT !.transport_cc = Some(9), !.mid = Some(<<109>>),
                         !.audio_level = Some(-5)]}

\* The id, the declared length and the bytes behind the header of the
\* element at the front of s.
PsId(s) == IF ps_call.two_byte_header THEN s[1] ELSE s[1] \div 16
PsLen(s) == IF ps_call.two_byte_header THEN s[2] ELSE (s[1] % 16) + 1
PsBody(s) == IF ps_call.two_byte_header THEN Tail(Tail(s)) ELSE Tail(s)
PsHasHeader(s) ==
    /\ s # <<>>
    /\ s[1] # 0
    /\ ps_call.two_byte_header => Len(s) >= 2

NsCounts == 0..255

NsBytes ==
    {<<>>, <<0>>, <<255>>, <<170, 85>>, <<0, 255>>, <<255, 0>>, <<83, 201>>,
     <<255, 255>>}

\* The number of bits read with f() before ns is called.
NsSkips == {0, 3, 7}

NoNsCall ==
    [n |-> 0, bytes |-> <<>>, skip |-> 0, result |-> Err("NotCalled")]

InitNs == ns_call = NoNsCall

\* The stream ns is called on: `skip` bits of `bytes` are already consumed.
NsStream(bytes, skip) ==
    IF skip = 0 THEN BitStreamNew(bytes) ELSE F(BitStreamNew(bytes), skip).bs

NsCall ==
    /\ ns_call = NoNsCall
    /\ \E n \in NsCounts, bytes \in NsBytes, skip \in NsSkips :
          /\ skip = 0 \/ Len(bytes) > 0
          /\ ns_call' = [n |-> n, bytes |-> bytes, skip |-> skip,
                         result |-> Ns(NsStream(bytes, skip), n)]
    /\ UNCHANGED exceptNs

NsReturn ==
    /\ ns_call # NoNsCall
    /\ ns_call' = NoNsCall
    /\ UNCHANGED exceptNs

NextNs == NsCall \/ NsReturn

\* Bit p of the byte string, the most significant bit of a byte first.
NsBit(bytes, p) == (bytes[(p \div 8) + 1] \div Pow2(7 - (p % 8))) % 2

\* The unsigned value of the k bits starting at bit `pos`.
RECURSIVE NsBitsAt(_, _, _)
NsBitsAt(bytes, pos, k) ==
    IF k = 0 THEN 0
    ELSE (2 * NsBitsAt(bytes, pos, k - 1)) + NsBit(bytes, pos + k - 1)

\* The number of bits of `bytes` the stream `bs` has consumed.
NsConsumed(bytes, bs) == (8 * (Len(bytes) - Len(bs.bytes))) + bs.bit_index

NsCalled == ns_call # NoNsCall

\* C24: Parser::ns(n) with enough bits in the stream returns a value in
\* 0..n-1 without arithmetic overflow: with k = floor(log2 n) and
\* m = 2^(k+1) - n, it reads k bits as v; if v < m it returns v having
\* consumed k bits, otherwise it reads one more bit e and returns
\* 2v - m + e having consumed k+1 bits.  Every intermediate value fits its
\* type (u16 for 2^(k+1), m and 2v, u8 for the result).  ns(0) returns 0
\* and consumes nothing.
C24_NsInRange ==
    NsCalled =>
        LET n == ns_call.n
            bytes == ns_call.bytes
            start == ns_call.skip
            r == ns_call.result
            avail == (8 * Len(bytes)) - start
            k == BitLength(n) - 1
            m == Pow2(k + 1) - n
            v == NsBitsAt(bytes, start, k)
            e == NsBitsAt(bytes, start + k, 1)
        IN  IF n = 0
            THEN r.ok /\ r.val = 0 /\ NsConsumed(bytes, r.bs) = start
            ELSE /\ LeadingZeros(n) \in 0..7
                 /\ Pow2(k + 1) \in 1..65535
                 /\ m \in 1..n
                 /\ avail >= k /\ v < m =>
                       /\ r.ok
                       /\ r.val = v
                       /\ r.val \in 0..(n - 1)
                       /\ NsConsumed(bytes, r.bs) = start + k
                 /\ avail >= k + 1 /\ v >= m =>
                       /\ (2 * v) \in 0..65535
                       /\ ((2 * v) - m) + e \in 0..255
                       /\ r.ok
                       /\ r.val = ((2 * v) - m) + e
                       /\ r.val \in 0..(n - 1)
                       /\ NsConsumed(bytes, r.bs) = start + k + 1

\* C24 witness: ns(33) three bits into 0xFFFF reads v = 31 = m, takes the
\* extra bit and returns 32 after six bits.
C24_Witness ==
    /\ NsCalled
    /\ ns_call.n = 33
    /\ ns_call.bytes = <<255, 255>>
    /\ ns_call.skip = 3
    /\ ns_call.result.ok
    /\ ns_call.result.val = 32
    /\ NsConsumed(ns_call.bytes, ns_call.result.bs) = 9

\* ---------------------------------------------------------------------------
\* parse_leb_u64 on its own: numbers of up to MaxLebCont continuation bytes,
\* terminated or not, with bytes behind them.
\* ---------------------------------------------------------------------------

MaxLebCont == 11

\* Continuation bytes (top bit set) and last bytes (top bit clear).
LebContBytes == {128, 170, 255}

LebLastBytes == {0, 1, 127}

LebTails == {<<>>, <<5>>, <<128, 5>>}

\* j equal continuation bytes, then nothing or a last byte and a tail.
LebInputs ==
    LET conts == {[i \in 1..j |-> c] : j \in 0..MaxLebCont, c \in LebContBytes}
    IN  conts \cup {c \o <<l>> \o t : c \in conts, l \in LebLastBytes,
                                      t \in LebTails}

NoLebCall ==
    [bytes |-> <<>>, called |-> FALSE,
     result |-> [value |-> {}, rest |-> <<>>, overflow |-> FALSE]]

InitLeb == leb_call = NoLebCall

LebCall ==
    /\ ~leb_call.called
    /\ \E bytes \in LebInputs :
          leb_call' = [bytes |-> bytes, called |-> TRUE,
                       result |-> ParseLebU64(bytes)]
    /\ UNCHANGED exceptLeb

LebReturn ==
    /\ leb_call.called
    /\ leb_call' = NoLebCall
    /\ UNCHANGED exceptLeb

NextLeb == LebCall \/ LebReturn

\* The positions (from 1) of the bytes with a clear top bit.
LebLastPositions(bytes) == {i \in 1..Len(bytes) : bytes[i] < 128}

\* The one bits of the sum over i < k of (byte_i & 0x7F) * 2^(7i): the terms
\* lie in disjoint bits.
LebSum(bytes, k) ==
    UNION {{b + (7 * (i - 1)) : b \in WordOf(bytes[i] % 128)} : i \in 1..k}

\* C25: parse_leb_u64 of a byte string whose first k bytes are a terminated
\* LEB128 value returns the sum of (byte_i & 0x7F) * 2^(7i) as a u64, with
\* no overflow of a shift or of the value, and the bytes after the k-th;
\* with no byte with a clear top bit it returns 0 and the whole input.
C25_LebValueAndRest ==
    leb_call.called =>
        LET bytes == leb_call.bytes
            r == leb_call.result
        IN  IF LebLastPositions(bytes) = {}
            THEN ~r.overflow /\ r.value = {} /\ r.rest = bytes
            ELSE LET k == Min(LebLastPositions(bytes))
                 IN  /\ ~r.overflow
                     /\ LebSum(bytes, k) \subseteq 0..63
                     /\ r.value = LebSum(bytes, k)
                     /\ r.rest = SubSeq(bytes, k + 1, Len(bytes))

\* The eleven byte encoding of 0, ten bytes of 0x80 and a 0, has been
\* parsed: the shift of the eleventh chunk is by 70.
C25_PaddedZeroOverflows ==
    /\ leb_call.called
    /\ leb_call.bytes = <<128, 128, 128, 128, 128, 128, 128, 128, 128, 128, 0>>
    /\ leb_call.result.overflow

\* ---------------------------------------------------------------------------
\* IV reuse (crypto/srtp.rs): two packets protected under one salt, with
\* aes_128_cm_sha1_80::rtp_iv or with aead_aes_128_gcm::rtp_iv.
\* ---------------------------------------------------------------------------

\* iv[2..6], iv[6..10], iv[10..12] .copy_from_slice
AeadCopy(iv, from, bytes) ==
    [i \in 1..12 |->
        IF i \in (from + 1)..(from + Len(bytes)) THEN bytes[i - from] ELSE iv[i]]

\* for i in 0..SALT_LEN { iv[i] ^= salt[i]; }
AeadXorSalt(iv, salt) == [i \in 1..12 |-> BitXor8(iv[i], salt[i])]

\* An aead rtp_iv that leaves the sequence number out.
AeadRtpIv_NoSeq(salt, ssrc, roc, seq) ==
    AeadXorSalt(AeadCopy(AeadCopy([i \in 1..12 |-> 0], 2, ToBeBytes(ssrc, 4)),
                         6, ToBeBytes(roc, 4)),
                salt)

\* aead_aes_128_gcm::rtp_iv
AeadRtpIv(salt, ssrc, roc, seq) ==
    AeadXorSalt(AeadCopy(AeadCopy(AeadCopy([i \in 1..12 |-> 0],
                                           2, ToBeBytes(ssrc, 4)),
                                  6, ToBeBytes(roc, 4)),
                         10, ToBeBytes(seq, 2)),
                salt)

\* The salts of the two cipher suites (14 and 12 bytes).
PairSalts == {[i \in 1..14 |-> 0], [i \in 1..14 |-> (37 * i + 165) % 256]}

AeadSalts == {SubSeq(salt, 1, 12) : salt \in PairSalts}

\* u32 ssrcs and ROCs, u16 sequence numbers and u64 SRTP indexes that
\* differ in their lowest bit, in their highest bit, or in all bits.  The
\* last two indexes have bits above the 48.
PairSsrcs == { {}, {0}, {31}, 0..31 }

PairRocs == { {}, {0}, {31}, 0..31 }

PairSeqs == { {}, {0}, {15} }

PairIndexes == { {}, {0}, {15}, {16}, {47}, 0..47, {48}, {63} }

CmPackets == [ssrc : PairSsrcs, srtp_index : PairIndexes]

AeadPackets == [ssrc : PairSsrcs, roc : PairRocs, seq : PairSeqs]

NoIvPair ==
    [kind |-> "none", salt |-> <<>>, x |-> {}, y |-> {}, iv_x |-> <<>>,
     iv_y |-> <<>>]

InitIvp == ivp_call = NoIvPair

\* Two packets of an AES-CM session.
CmRtpIvPair ==
    /\ ivp_call.kind = "none"
    /\ \E salt \in PairSalts, x \in CmPackets, y \in CmPackets :
          ivp_call' = [kind |-> "cm", salt |-> salt, x |-> x, y |-> y,
                       iv_x |-> RtpIv(salt, x.ssrc, x.srtp_index),
                       iv_y |-> RtpIv(salt, y.ssrc, y.srtp_index)]
    /\ UNCHANGED exceptIvp

\* Two packets of an AES-GCM session.
AeadRtpIvPair ==
    /\ ivp_call.kind = "none"
    /\ \E salt \in AeadSalts, x \in AeadPackets, y \in AeadPackets :
          ivp_call' = [kind |-> "gcm", salt |-> salt, x |-> x, y |-> y,
                       iv_x |-> AeadRtpIv(salt, x.ssrc, x.roc, x.seq),
                       iv_y |-> AeadRtpIv(salt, y.ssrc, y.roc, y.seq)]
    /\ UNCHANGED exceptIvp

\* The session goes on to its next packets.
IvPairDone ==
    /\ ivp_call.kind # "none"
    /\ ivp_call' = NoIvPair
    /\ UNCHANGED exceptIvp

NextIvp == CmRtpIvPair \/ AeadRtpIvPair \/ IvPairDone

\* C29: under one salt, aes_128_cm_sha1_80::rtp_iv gives distinct IVs to
\* distinct (ssrc, srtp_index) pairs with indexes below 2^48, and
\* aead_aes_128_gcm::rtp_iv gives distinct IVs to distinct (ssrc, roc, seq)
\* triples.
C29_NoIvReuse ==
    /\ (/\ ivp_call.kind = "cm"
        /\ ivp_call.x # ivp_call.y
        /\ ivp_call.x.srtp_index \subseteq 0..47
        /\ ivp_call.y.srtp_index \subseteq 0..47)
       => ivp_call.iv_x # ivp_call.iv_y
    /\ (ivp_call.kind = "gcm" /\ ivp_call.x # ivp_call.y)
       => ivp_call.iv_x # ivp_call.iv_y

\* C29 witness: two AES-GCM packets of one ssrc and one ROC whose sequence
\* numbers differ in the lowest bit; their IVs differ in the last byte
\* only.
C29_Witness ==
    /\ ivp_call.kind = "gcm"
    /\ ivp_call.salt = [i \in 1..12 |-> (37 * i + 165) % 256]
    /\ ivp_call.x = [ssrc |-> 0..31, roc |-> {31}, seq |-> {}]
    /\ ivp_call.y = [ssrc |-> 0..31, roc |-> {31}, seq |-> {0}]
    /\ SubSeq(ivp_call.iv_x, 1, 11) = SubSeq(ivp_call.iv_y, 1, 11)
    /\ ivp_call.iv_x[12] # ivp_call.iv_y[12]

\* ---------------------------------------------------------------------------
\* Vsr (rtp/rtcp/vsr.rs): write_to, and try_from on the bytes written, as
\* the whole packet and as the body after the 4 byte RTCP header.
\* ---------------------------------------------------------------------------

\* Vsr::length_words
LengthWords == 25

\* Vsr::header: PayloadSpecificFeedback (206), ApplicationLayer (15)
VsrHeader ==
    [rtcp_type |-> 206, feedback_message_type |-> 15,
     words_less_one |-> (LengthWords - 1) % 65536]

\* RtcpHeader::write_to: version 2, no padding, the feedback message type,
\* the packet type and words_less_one, big endian.
RtcpHeaderWriteTo(header) ==
    <<128 + header.feedback_message_type, header.rtcp_type,
      header.words_less_one \div 256, header.words_less_one % 256>>

\* buf[from..from + Len(bytes)].copy_from_slice(bytes), from counted from 0
CopyFromSlice(b, from, bytes) ==
    [i \in 1..Len(b) |->
        IF i \in (from + 1)..(from + Len(bytes)) THEN bytes[i - from] ELSE b[i]]

\* The constant bytes 22..100 of write_to.
VsrTail ==
    <<0, 0, 0, 0, 1, 68, 0, 0, 0, 0, 107, 1, 6, 2, 7, 128, 4, 56, 0, 6, 26,
      128, 0, 0, 0, 0, 0, 0, 0, 1, 0, 1, 0, 0, 0, 0, 0, 0, 0, 0, 0, 0, 0,
      0, 0, 0, 0, 0, 0, 0, 0, 0, 0, 16, 0, 1, 0, 0, 0, 1, 0, 0, 0, 0, 0, 0,
      0, 0, 0, 0, 0, 0, 0, 0, 0, 31, 164, 0>>

\* Vsr::write_to: the buffer and the number of bytes written
VsrWriteTo(v, b) ==
    LET header(x) == CopyFromSlice(x, 0, RtcpHeaderWriteTo(VsrHeader))
        sender_ssrc(x) == CopyFromSlice(x, 4, ToBeBytes(v.sender_ssrc, 4))
        ssrc(x) == CopyFromSlice(x, 8, ToBeBytes(v.ssrc, 4))
        fci(x) == CopyFromSlice(x, 12, <<0, 1, 0, 88>>)
        msi(x) == CopyFromSlice(x, 16, ToBeBytes(v.msi, 4))
        request_id(x) == CopyFromSlice(x, 20, ToBeBytes(v.request_id, 2))
        tail(x) == CopyFromSlice(x, 22, VsrTail)
    IN  [buf |-> tail(request_id(msi(fci(ssrc(sender_ssrc(header(b))))))),
         n |-> 100]

\* u32::from_be_bytes, u16::from_be_bytes: the word of the bytes
FromBeBytes(bytes) ==
    {n \in 0..((8 * Len(bytes)) - 1) :
        BitOf(bytes[Len(bytes) - (n \div 8)], n % 8) = 1}

\* A try_from whose offsets are all those of the whole packet.
VsrTryFrom_PacketOffsets(b) ==
    IF Len(b) < 100
    THEN [ok |-> FALSE, err |-> "Vsr less than 100 bytes"]
    ELSE [ok |-> TRUE,
          vsr |-> [sender_ssrc |-> FromBeBytes(SubSeq(b, 5, 8)),
                   ssrc |-> FromBeBytes(SubSeq(b, 9, 12)),
                   msi |-> FromBeBytes(SubSeq(b, 17, 20)),
                   request_id |-> FromBeBytes(SubSeq(b, 21, 22))]]

\* Vsr::try_from
VsrTryFrom(b) ==
    IF Len(b) < 100
    THEN [ok |-> FALSE, err |-> "Vsr less than 100 bytes"]
    ELSE [ok |-> TRUE,
          vsr |-> [sender_ssrc |-> FromBeBytes(SubSeq(b, 1, 4)),
                   ssrc |-> FromBeBytes(SubSeq(b, 5, 8)),
                   msi |-> FromBeBytes(SubSeq(b, 17, 20)),
                   request_id |-> FromBeBytes(SubSeq(b, 21, 22))]]

\* The Vsr values written: u32 fields of no bit, one bit, all bits, and the
\* u32 whose bytes are those of the RTCP header of a Vsr.
VsrSsrcs == { {}, {0}, 0..31, {3, 4, 17, 18, 19, 22, 23, 24, 25, 26, 27, 31} }

VsrMsis == { {}, {31}, {1, 8, 18, 27} }

VsrRequestIds == { {}, {0}, 0..15 }

Vsrs ==
    [sender_ssrc : VsrSsrcs, ssrc : VsrSsrcs, msi : VsrMsis,
     request_id : VsrRequestIds]

\* The buffers handed to write_to: 100 bytes, and more.
VsrBufs == {[i \in 1..100 |-> 255], [i \in 1..104 |-> 255]}

NoVsrCall == [op |-> "none"]

InitVsr == vsr_call = NoVsrCall

\* A Vsr is written, and the receiver hands the bytes written to try_from,
\* whole and without the RTCP header.
VsrWriteAndParse ==
    /\ vsr_call.op = "none"
    /\ \E v \in Vsrs, b \in VsrBufs :
          LET w == VsrWriteTo(v, b)
          IN  vsr_call' = [op |-> "write_to", v |-> v, buf |-> w.buf, n |-> w.n,
                           packet |-> VsrTryFrom(SubSeq(w.buf, 1, w.n)),
                           body |-> VsrTryFrom(SubSeq(w.buf, 5, w.n))]
    /\ UNCHANGED exceptVsr

VsrDone ==
    /\ vsr_call.op # "none"
    /\ vsr_call' = NoVsrCall
    /\ UNCHANGED exceptVsr

NextVsr == VsrWriteAndParse \/ VsrDone

VsrWritten == vsr_call.op = "write_to"

\* try_from returned Ok of a Vsr equal to the one written.
VsrRecovered(r) == r.ok /\ r.vsr = vsr_call.v

\* C30: write_to of a Vsr writes exactly 100 bytes = 4 * length_words(),
\* with words_less_one = 24 in the header, and try_from of the bytes
\* written, either as the whole packet or as the body after the 4 byte
\* header, returns Ok of a Vsr equal to the one written.
C30_VsrRoundTrip ==
    VsrWritten =>
        /\ vsr_call.n = 100
        /\ vsr_call.n = 4 * LengthWords
        /\ (vsr_call.buf[3] * 256) + vsr_call.buf[4] = 24
        /\ VsrRecovered(vsr_call.packet) \/ VsrRecovered(vsr_call.body)

Init ==
    /\ InitExt /\ InitDD /\ InitAL /\ InitVLA /\ InitStats /\ InitIV
    /\ InitDtls /\ InitPD /\ InitWT /\ InitPS /\ InitNs /\ InitLeb
    /\ InitIvp /\ InitVsr

Next == NextExt

Spec == Init /\ [][Next]_vars

SpecDD == Init /\ [][NextDD]_vars

SpecAL == Init /\ [][NextAL]_vars

SpecVLA == Init /\ [][NextVLA]_vars

SpecStats == Init /\ [][NextStats]_vars

SpecIV == Init /\ [][NextIV]_vars

SpecDtls == Init /\ [][NextDtls]_vars

SpecPD == Init /\ [][NextPD]_vars

SpecWT == Init /\ [][NextWT]_vars

SpecPS == Init /\ [][NextPS]_vars

SpecNs == Init /\ [][NextNs]_vars

SpecLeb == Init /\ [][NextLeb]_vars

SpecIvp == Init /\ [][NextIvp]_vars

SpecVsr == Init /\ [][NextVsr]_vars

====
